---- MODULE Spec2Model ----
(***************************************************************************)
(* Causal belief network engine of backend/ (cbn_manager.py, app.py).      *)
(*                                                                         *)
(* Representation                                                          *)
(*   - ids are the strings the code builds: "n" \o k, "e" \o k, "qa" \o k; *)
(*     Python's None is the string "None".                                 *)
(*   - a Python dict that the code iterates is a function together with    *)
(*     the sequence of its keys in insertion order (nodes / node_ids).     *)
(*   - a Python float is an exact rational <<num, den>> in lowest terms    *)
(*     with den > 0 (rounding of IEEE doubles is not modelled).            *)
(*   - a label is a sequence of one-character strings.                     *)
(***************************************************************************)
EXTENDS Integers, Sequences, FiniteSets, TLC

VARIABLES
    cbn_store,   \* app.py cbn_store: session key -> CBN dict (also the CBN in flight)
    mgr,         \* the module-level CBNManager instance of app.py
    rq,          \* per session: the locals of the process_answer request in flight
    last_op      \* history: the engine operation executed by the last step

vars == <<cbn_store, mgr, rq, last_op>>

None == "None"

(***************************************************************************)
(* Bounds of the model                                                     *)
(***************************************************************************)
\* QA pairs processed per session in one behaviour
MaxQa == 2

\* SpecCap: QA pairs answered first, each naming one new factor with high scores
SeedQas == 23

\* SpecCap: QA pairs processed after those
CapQa == 1

\* SpecTwo: QA pairs answered by session "s1", each naming one new factor with
\* high scores, and by session "s2", naming two variants of one factor in turn
TwoSeedA == 4
TwoSeedB == 2

\* SpecTerm: QA pairs answered by the session, and calls of check_termination made
\* between its requests
TermQas == 50
MaxChecks == 5

\* SpecAgg: longest evidence list handed to an aggregation function
MaxEvidence == 2

\* SpecService: QA pairs with extracted nodes per service-layer CBN
MaxServiceQa == 2

\* SpecDirection: highest frequency of a node handed to _determine_merge_direction
MaxFrequency == 2

(***************************************************************************)
(* Sequence helpers                                                        *)
(***************************************************************************)
Range(s) == {s[i] : i \in 1..Len(s)}

Contains(s, x) == \E i \in 1..Len(s) : s[i] = x

\* list.remove(x): drops the first occurrence
RemoveFirst(s, x) ==
    IF ~Contains(s, x) THEN s
    ELSE LET i == CHOOSE k \in 1..Len(s) : s[k] = x /\ \A j \in 1..(k-1) : s[j] # x
         IN  SubSeq(s, 1, i-1) \o SubSeq(s, i+1, Len(s))

\* the subsequence of s whose elements satisfy Keep(_)
RECURSIVE Filter(_, _)
Filter(s, keepset) ==
    IF s = <<>> THEN <<>>
    ELSE (IF Head(s) \in keepset THEN <<Head(s)>> ELSE <<>>) \o Filter(Tail(s), keepset)

NoDuplicates(s) == \A i, j \in 1..Len(s) : s[i] = s[j] => i = j

(***************************************************************************)
(* Floats as exact rationals                                               *)
(***************************************************************************)
RECURSIVE GCD(_, _)
GCD(a, b) == IF b = 0 THEN a ELSE GCD(b, a % b)

Abs(n) == IF n < 0 THEN -n ELSE n

R(n, d) ==
    LET s == IF d < 0 THEN -1 ELSE 1
        g == GCD(Abs(n), Abs(d))
    IN  IF n = 0 THEN <<0, 1>> ELSE <<(s * n) \div g, (s * d) \div g>>

RAdd(x, y) == R(x[1] * y[2] + y[1] * x[2], x[2] * y[2])
RMul(x, y) == R(x[1] * y[1], x[2] * y[2])
RDiv(x, y) == R(x[1] * y[2], x[2] * y[1])
RNeg(x)    == <<-x[1], x[2]>>
RAbs(x)    == <<Abs(x[1]), x[2]>>
RLt(x, y)  == x[1] * y[2] < y[1] * x[2]
RLe(x, y)  == x[1] * y[2] <= y[1] * x[2]
RGt(x, y)  == RLt(y, x)
RGe(x, y)  == RLe(y, x)
RMax(x, y) == IF RLt(x, y) THEN y ELSE x
RInt(n)    == <<n, 1>>

RECURSIVE RSum(_)
RSum(s) == IF s = <<>> THEN RInt(0) ELSE RAdd(Head(s), RSum(Tail(s)))

(***************************************************************************)
(* Labels: str.lower(), re.sub(r'[^a-zA-Z0-9\s]', ' ', ...), str.split()   *)
(***************************************************************************)
UpperChars == {"A", "B", "C", "S"}
LowerChars == {"a", "b", "c", "d", "f", "s", "w", "x", "y"}
DigitChars == {"0", "1", "2", "3", "4", "5", "6", "7", "8", "9"}
SpaceChars == {" "}

lower_char(c) ==
    CASE c = "A" -> "a"
      [] c = "B" -> "b"
      [] c = "C" -> "c"
      [] c = "S" -> "s"
      [] OTHER   -> c

\* str.lower()
lower(label) == [i \in 1..Len(label) |-> lower_char(label[i])]

\* str.split() on whitespace: the list of maximal runs of non-space characters
RECURSIVE split(_, _)
split(chars, word) ==
    IF chars = <<>> THEN (IF word = "" THEN <<>> ELSE <<word>>)
    ELSE IF Head(chars) \in SpaceChars
         THEN (IF word = "" THEN <<>> ELSE <<word>>) \o split(Tail(chars), "")
         ELSE split(Tail(chars), word \o Head(chars))

\* SemanticSimilarityEngine.preprocess_label
preprocess_label(label) ==
    LET low == lower(label)
        sub == [i \in 1..Len(low) |->
                   IF low[i] \in (UpperChars \cup LowerChars \cup DigitChars \cup SpaceChars)
                   THEN low[i] ELSE " "]
    IN  split(sub, "")

\* SemanticSimilarityEngine.node_similarity (Jaccard coefficient of the word sets)
node_similarity(label1, label2) ==
    LET words1 == Range(preprocess_label(label1))
        words2 == Range(preprocess_label(label2))
        common_words == words1 \cap words2
        total_words  == words1 \cup words2
    IN  IF total_words = {} THEN RInt(0)
        ELSE R(Cardinality(common_words), Cardinality(total_words))

\* a threshold of 0.8
similarity_threshold_Higher == R(4, 5)

\* SemanticSimilarityEngine(similarity_threshold=0.7)
similarity_threshold == R(7, 10)

(***************************************************************************)
(* Evidence aggregation (cbn_manager.py 1082-1176)                         *)
(***************************************************************************)
Confidences(evidence_list) == [i \in 1..Len(evidence_list) |-> evidence_list[i].confidence]

\* CBNManager._calculate_aggregate_confidence (edges)
_calculate_aggregate_confidence(evidence_list) ==
    IF evidence_list = <<>> THEN RInt(0)
    ELSE RDiv(RSum(Confidences(evidence_list)), RInt(Len(evidence_list)))

\* CBNManager._calculate_aggregate_modifier
_calculate_aggregate_modifier(evidence_list) ==
    IF evidence_list = <<>> THEN RInt(0)
    ELSE LET total_confidence == RSum(Confidences(evidence_list))
             weighted_mods == [i \in 1..Len(evidence_list) |->
                 RMul(evidence_list[i].original_modifier, evidence_list[i].confidence)]
         IN  IF RGt(total_confidence, RInt(0))
             THEN RDiv(RSum(weighted_mods), total_confidence)
             ELSE RInt(0)

\* CBNManager._calculate_node_aggregate_confidence
_calculate_node_aggregate_confidence(evidence_list) ==
    IF evidence_list = <<>> THEN R(1, 2)
    ELSE RDiv(RSum(Confidences(evidence_list)), RInt(Len(evidence_list)))

\* CBNManager._calculate_node_importance
_calculate_node_importance(evidence_list) ==
    IF evidence_list = <<>> THEN R(1, 2)
    ELSE LET total_confidence == RSum(Confidences(evidence_list))
             weighted_sum == RSum([i \in 1..Len(evidence_list) |->
                 RMul(evidence_list[i].importance, evidence_list[i].confidence)])
         IN  IF RGt(total_confidence, RInt(0))
             THEN RDiv(weighted_sum, total_confidence)
             ELSE RDiv(RSum([i \in 1..Len(evidence_list) |-> evidence_list[i].importance]),
                       RInt(Len(evidence_list)))

\* any(e.get('qa_id') == qa_id for e in evidence)
qa_exists(evidence, qa_id) == \E i \in 1..Len(evidence) : evidence[i].qa_id = qa_id

(***************************************************************************)
(* The CBN dict (app.py process_answer 282-310)                            *)
(***************************************************************************)
\* f"Support for {default_topic}", words abbreviated to one letter each
stance_label == <<"S", " ", "f", " ", "x">>

\* dict insertion d[k] = v, keeping the insertion order of the keys
PutNode(cbn, node_id, node) ==
    [cbn EXCEPT !.nodes    = [k \in (DOMAIN cbn.nodes) \cup {node_id} |->
                                 IF k = node_id THEN node ELSE cbn.nodes[k]],
                !.node_ids = IF node_id \in DOMAIN cbn.nodes THEN cbn.node_ids
                             ELSE Append(cbn.node_ids, node_id)]

\* del cbn['nodes'][node_id]
DelNode(cbn, node_id) ==
    [cbn EXCEPT !.nodes    = [k \in (DOMAIN cbn.nodes) \ {node_id} |-> cbn.nodes[k]],
                !.node_ids = Filter(cbn.node_ids, (DOMAIN cbn.nodes) \ {node_id})]

PutEdge(cbn, edge_id, edge) ==
    [cbn EXCEPT !.edges = [k \in (DOMAIN cbn.edges) \cup {edge_id} |->
                              IF k = edge_id THEN edge ELSE cbn.edges[k]]]

DelEdge(cbn, edge_id) ==
    [cbn EXCEPT !.edges = [k \in (DOMAIN cbn.edges) \ {edge_id} |-> cbn.edges[k]]]

\* the CBN created by process_answer when the session has none
NewCbn ==
    [nodes |-> [k \in {"n1"} |->
                   [label                |-> stance_label,
                    aggregate_confidence |-> RInt(1),
                    evidence             |-> <<[qa_id |-> "system", confidence |-> RInt(1),
                                                importance |-> RInt(1)]>>,
                    importance           |-> RInt(1),
                    incoming_edges       |-> <<>>,
                    outgoing_edges       |-> <<>>,
                    status               |-> "anchor",
                    frequency            |-> 1,
                    is_stance            |-> TRUE]],
     node_ids       |-> <<"n1">>,
     edges          |-> [k \in {} |-> {}],
     qa_history     |-> [k \in {} |-> {}],
     stance_node_id |-> "n1",
     step           |-> "node_discovery",
     anchor_queue   |-> <<"n1">>,
     node_counter   |-> 1,
     edge_counter   |-> 0,
     qa_counter     |-> 0]

(***************************************************************************)
(* Node ingestion (app.py update_cbn_with_qa 704-765)                      *)
(***************************************************************************)
\* a lookup that compares the labels as written
FindExistingNode_CaseSensitive(cbn, node_label) ==
    LET hits == {i \in 1..Len(cbn.node_ids) :
                    cbn.nodes[cbn.node_ids[i]].label = node_label}
    IN  IF hits = {} THEN None
        ELSE cbn.node_ids[CHOOSE i \in hits : \A j \in hits : i <= j]

\* the first node, in dict order, whose label equals node_label ignoring case
FindExistingNode(cbn, node_label) ==
    LET hits == {i \in 1..Len(cbn.node_ids) :
                    lower(cbn.nodes[cbn.node_ids[i]].label) = lower(node_label)}
    IN  IF hits = {} THEN None
        ELSE cbn.node_ids[CHOOSE i \in hits : \A j \in hits : i <= j]

\* a frequency update that also resets the node to a candidate
BumpFrequency_Demote(existing_node) ==
    [existing_node EXCEPT !.frequency = existing_node.frequency + 1, !.status = "candidate"]

\* app.py 717: existing_node['frequency'] = existing_node.get('frequency', 1) + 1
BumpFrequency(existing_node) ==
    [existing_node EXCEPT !.frequency = existing_node.frequency + 1]

\* an evidence update that appends whether or not the QA is in the evidence
AddNodeEvidence_Always(existing_node, new_evidence) ==
    LET evidence == Append(existing_node.evidence, new_evidence)
    IN  [existing_node EXCEPT
           !.evidence = evidence,
           !.aggregate_confidence = _calculate_node_aggregate_confidence(evidence),
           !.importance = _calculate_node_importance(evidence)]

\* app.py 731-739: the evidence of this QA, unless the QA is in the evidence already
AddNodeEvidence(existing_node, new_evidence) ==
    LET evidence == Append(existing_node.evidence, new_evidence)
    IN  IF ~qa_exists(existing_node.evidence, new_evidence.qa_id)
        THEN [existing_node EXCEPT
                !.evidence = evidence,
                !.aggregate_confidence = _calculate_node_aggregate_confidence(evidence),
                !.importance = _calculate_node_importance(evidence)]
        ELSE existing_node

\* one iteration of `for node_id, node in new_nodes.items()`
IngestNode(cbn, node, qa_id) ==
    LET existing_node_id == FindExistingNode(cbn, node.label)
    IN  IF existing_node_id # None
        THEN LET existing_node == cbn.nodes[existing_node_id]
                 new_evidence == [qa_id |-> qa_id, confidence |-> node.aggregate_confidence,
                                  importance |-> node.importance]
             IN  PutNode(cbn, existing_node_id,
                         AddNodeEvidence(BumpFrequency(existing_node), new_evidence))
        ELSE LET counter == cbn.node_counter + 1
                 new_node_id == "n" \o ToString(counter)
             IN  PutNode([cbn EXCEPT !.node_counter = counter], new_node_id,
                    [label                |-> node.label,
                     aggregate_confidence |-> node.aggregate_confidence,
                     importance           |-> node.importance,
                     evidence             |-> <<[qa_id |-> qa_id,
                                                 confidence |-> node.aggregate_confidence,
                                                 importance |-> node.importance]>>,
                     incoming_edges       |-> <<>>,
                     outgoing_edges       |-> <<>>,
                     status               |-> "candidate",
                     frequency            |-> 1,
                     is_stance            |-> FALSE])

RECURSIVE IngestNodes(_, _, _)
IngestNodes(cbn, new_nodes, qa_id) ==
    IF new_nodes = <<>> THEN cbn
    ELSE IngestNodes(IngestNode(cbn, Head(new_nodes), qa_id), Tail(new_nodes), qa_id)

(***************************************************************************)
(* CBNManager.add_edge, update_function_params                             *)
(***************************************************************************)
\* the last node, in dict order, whose lowercased label equals `label` (no break)
\* a label lookup that falls back on the first node of the table
FindNodeByLabel_Default(cbn, label) ==
    LET hits == {i \in 1..Len(cbn.node_ids) :
                    lower(cbn.nodes[cbn.node_ids[i]].label) = label}
    IN  cbn.node_ids[IF hits = {} THEN 1 ELSE CHOOSE i \in hits : \A j \in hits : j <= i]

FindNodeByLabel(cbn, label) ==
    LET hits == {i \in 1..Len(cbn.node_ids) :
                    lower(cbn.nodes[cbn.node_ids[i]].label) = label}
    IN  IF hits = {} THEN None
        ELSE cbn.node_ids[CHOOSE i \in hits : \A j \in hits : j <= i]

\* lines 268-275: the endpoint lists are updated inside `if edge_data.get('explanation')`
UpdateNodeReferences(cbn, edge_data, from_node_id, to_node_id, edge_id) ==
    IF edge_data.explanation # ""
    THEN LET c1 == [cbn EXCEPT !.nodes[from_node_id].outgoing_edges = Append(@, edge_id)]
         IN  [c1 EXCEPT !.nodes[to_node_id].incoming_edges = Append(@, edge_id)]
    ELSE cbn

\* an edge candidate without a 'strength' key, as extract_edge builds it
\* (llm_extractor.py 147-155); add_edge then takes edge_data.get('strength', 0.7)
NoStrength == <<>>

\* returns the pair (cbn, edge_id) as a record
add_edge(cbn, edge_data) ==
    LET from_label   == lower(edge_data.from_label)
        to_label     == lower(edge_data.to_label)
        from_node_id == FindNodeByLabel(cbn, from_label)
        to_node_id   == FindNodeByLabel(cbn, to_label)
    IN  IF from_node_id = None \/ to_node_id = None
        THEN [cbn |-> cbn, edge_id |-> None]
        ELSE LET confidence == edge_data.aggregate_confidence
                 strength   == IF edge_data.strength = NoStrength THEN R(7, 10)
                               ELSE edge_data.strength
                 direction  == edge_data.direction
                 modifier   == IF direction = "positive" THEN strength ELSE RNeg(strength)
                 adjusted_modifier == RMul(modifier, confidence)
                 evidence_entry == [qa_id |-> edge_data.support_qas[1],
                                    confidence |-> confidence,
                                    original_modifier |-> modifier]
                 counter == cbn.edge_counter + 1
                 edge_id == "e" \o ToString(counter)
                 c1 == PutEdge([cbn EXCEPT !.edge_counter = counter], edge_id,
                         [source               |-> from_node_id,
                          target               |-> to_node_id,
                          aggregate_confidence |-> confidence,
                          evidence             |-> <<evidence_entry>>,
                          modifier             |-> adjusted_modifier,
                          source_label         |-> edge_data.from_label,
                          target_label         |-> edge_data.to_label,
                          explanation          |-> edge_data.explanation,
                          direction            |-> direction,
                          strength             |-> strength])
             IN  [cbn |-> UpdateNodeReferences(c1, edge_data, from_node_id, to_node_id, edge_id),
                  edge_id |-> edge_id]

\* function_params always carries 'aggregate_confidence' when it is built (app.py 790-793)
update_function_params(cbn, edge_id, function_params) ==
    IF edge_id \notin DOMAIN cbn.edges THEN cbn
    ELSE LET edge == cbn.edges[edge_id]
             n == Len(edge.evidence)
             evidence == [edge.evidence EXCEPT ![n].confidence =
                              function_params.aggregate_confidence]
         IN  IF n = 0 THEN cbn
             ELSE PutEdge(cbn, edge_id,
                    [edge EXCEPT !.evidence = evidence,
                                 !.aggregate_confidence = _calculate_aggregate_confidence(evidence),
                                 !.modifier = _calculate_aggregate_modifier(evidence)])

(***************************************************************************)
(* Similarity matching and merge direction (cbn_manager.py 52-102, 343-497)*)
(***************************************************************************)
\* SemanticSimilarityEngine.find_similar_nodes: the pairs (i < j, in dict order) with
\* non-empty labels and similarity >= threshold, in the order of the two nested loops;
\* k = (i - 1) * n + j numbers the index pairs row by row
SimilarIndexPairs(cbn) ==
    LET n == Len(cbn.node_ids)
    IN  {k \in 1..(n * n) :
            LET i == ((k - 1) \div n) + 1
                j == ((k - 1) % n) + 1
                label1 == cbn.nodes[cbn.node_ids[i]].label
                label2 == cbn.nodes[cbn.node_ids[j]].label
            IN  /\ i < j
                /\ label1 # <<>>
                /\ label2 # <<>>
                /\ RGe(node_similarity(label1, label2), similarity_threshold)}

find_similar_nodes(cbn) ==
    LET n == Len(cbn.node_ids)
        hits == SimilarIndexPairs(cbn)
        nth(m) == CHOOSE k \in hits : Cardinality({h \in hits : h <= k}) = m
    IN  IF n < 2 THEN <<>>
        ELSE [m \in 1..Cardinality(hits) |->
                <<cbn.node_ids[((nth(m) - 1) \div n) + 1], cbn.node_ids[((nth(m) - 1) % n) + 1]>>]

\* a direction decided by frequency, importance and confidence alone
_determine_merge_direction_ByScore(node_id1, node_id2, node1, node2) ==
    IF node1.frequency > node2.frequency THEN <<node_id2, node_id1>>
    ELSE IF node2.frequency > node1.frequency THEN <<node_id1, node_id2>>
    ELSE IF RGt(node1.importance, node2.importance) THEN <<node_id2, node_id1>>
    ELSE IF RGt(node2.importance, node1.importance) THEN <<node_id1, node_id2>>
    ELSE IF RGt(node1.aggregate_confidence, node2.aggregate_confidence)
         THEN <<node_id2, node_id1>>
    ELSE <<node_id1, node_id2>>

\* CBNManager._determine_merge_direction: <<source_id, target_id>>
_determine_merge_direction(node_id1, node_id2, node1, node2) ==
    IF node1.is_stance /\ ~node2.is_stance THEN <<node_id2, node_id1>>
    ELSE IF node2.is_stance /\ ~node1.is_stance THEN <<node_id1, node_id2>>
    ELSE IF node1.status = "anchor" /\ node2.status # "anchor" THEN <<node_id2, node_id1>>
    ELSE IF node2.status = "anchor" /\ node1.status # "anchor" THEN <<node_id1, node_id2>>
    ELSE IF node1.frequency > node2.frequency THEN <<node_id2, node_id1>>
    ELSE IF node2.frequency > node1.frequency THEN <<node_id1, node_id2>>
    ELSE IF RGt(node1.importance, node2.importance) THEN <<node_id2, node_id1>>
    ELSE IF RGt(node2.importance, node1.importance) THEN <<node_id1, node_id2>>
    ELSE IF RGt(node1.aggregate_confidence, node2.aggregate_confidence)
         THEN <<node_id2, node_id1>>
    ELSE <<node_id1, node_id2>>

\* CBNManager._find_mergeable_nodes: the list of (source_id, target_id)
_find_mergeable_nodes(cbn) ==
    LET similar_node_pairs == find_similar_nodes(cbn)
    IN  [k \in 1..Len(similar_node_pairs) |->
            _determine_merge_direction(similar_node_pairs[k][1], similar_node_pairs[k][2],
                                       cbn.nodes[similar_node_pairs[k][1]],
                                       cbn.nodes[similar_node_pairs[k][2]])]

(***************************************************************************)
(* Node merge (cbn_manager.py 499-662)                                     *)
(***************************************************************************)
\* an evidence merge that appends every source entry
MergeEvidence_Concat(target_evidence, source_evidence) == target_evidence \o source_evidence

\* lines 553-566 and 783-796: append each source entry whose qa_id the target lacks
RECURSIVE MergeEvidence(_, _)
MergeEvidence(target_evidence, source_evidence) ==
    IF source_evidence = <<>> THEN target_evidence
    ELSE MergeEvidence(
            IF qa_exists(target_evidence, Head(source_evidence).qa_id)
            THEN target_evidence
            ELSE Append(target_evidence, Head(source_evidence)),
            Tail(source_evidence))

\* one direction of _redirect_node_edges: field is "target" (incoming) or "source"
RECURSIVE RedirectIncoming(_, _, _)
RedirectIncoming(cbn, edge_ids, new_node_id) ==
    IF edge_ids = <<>> THEN cbn
    ELSE LET edge_id == Head(edge_ids)
             c1 == [cbn EXCEPT !.edges[edge_id].target = new_node_id]
             c2 == IF Contains(cbn.nodes[new_node_id].incoming_edges, edge_id) THEN c1
                   ELSE [c1 EXCEPT !.nodes[new_node_id].incoming_edges = Append(@, edge_id)]
         IN  RedirectIncoming(IF edge_id \in DOMAIN cbn.edges THEN c2 ELSE cbn,
                              Tail(edge_ids), new_node_id)

RECURSIVE RedirectOutgoing(_, _, _)
RedirectOutgoing(cbn, edge_ids, new_node_id) ==
    IF edge_ids = <<>> THEN cbn
    ELSE LET edge_id == Head(edge_ids)
             c1 == [cbn EXCEPT !.edges[edge_id].source = new_node_id]
             c2 == IF Contains(cbn.nodes[new_node_id].outgoing_edges, edge_id) THEN c1
                   ELSE [c1 EXCEPT !.nodes[new_node_id].outgoing_edges = Append(@, edge_id)]
         IN  RedirectOutgoing(IF edge_id \in DOMAIN cbn.edges THEN c2 ELSE cbn,
                              Tail(edge_ids), new_node_id)

\* CBNManager._redirect_node_edges
_redirect_node_edges(cbn, old_node_id, new_node_id) ==
    LET old_node == cbn.nodes[old_node_id]
    IN  RedirectOutgoing(RedirectIncoming(cbn, old_node.incoming_edges, new_node_id),
                         old_node.outgoing_edges, new_node_id)

\* lines 592-611: rewrite the references to source_id in every qa_history entry
UpdateQaHistory(qa_history, source_id, target_id) ==
    [q \in DOMAIN qa_history |->
        [qa_history[q] EXCEPT
            !.extracted_nodes = [i \in 1..Len(@) |->
                IF @[i].node_id = source_id THEN [@[i] EXCEPT !.node_id = target_id] ELSE @[i]],
            !.extracted_pairs = [i \in 1..Len(@) |->
                [@[i] EXCEPT !.source = IF @ = source_id THEN target_id ELSE @,
                             !.target = IF @ = source_id THEN target_id ELSE @]]]]

\* lines 620-625
UpdateAnchorQueue(anchor_queue, source_id, target_id) ==
    IF Contains(anchor_queue, source_id)
    THEN LET removed == RemoveFirst(anchor_queue, source_id)
         IN  IF ~Contains(removed, target_id) THEN Append(removed, target_id) ELSE removed
    ELSE anchor_queue

\* CBNManager._merge_nodes
_merge_nodes(cbn, source_id, target_id) ==
    IF source_id \notin DOMAIN cbn.nodes \/ target_id \notin DOMAIN cbn.nodes THEN cbn
    ELSE LET source_node == cbn.nodes[source_id]
             target_node == cbn.nodes[target_id]
             evidence    == MergeEvidence(target_node.evidence, source_node.evidence)
             c1 == [cbn EXCEPT !.nodes[target_id] =
                       [target_node EXCEPT
                          !.evidence  = evidence,
                          !.frequency = target_node.frequency + source_node.frequency,
                          !.importance = _calculate_node_importance(evidence),
                          !.aggregate_confidence = _calculate_node_aggregate_confidence(evidence)]]
             c2 == _redirect_node_edges(c1, source_id, target_id)
             c3 == [c2 EXCEPT !.qa_history = UpdateQaHistory(@, source_id, target_id)]
             c4 == DelNode(c3, source_id)
         IN  [c4 EXCEPT !.anchor_queue = UpdateAnchorQueue(@, source_id, target_id)]

(***************************************************************************)
(* Edge dedup after a node merge (cbn_manager.py 664-845)                  *)
(***************************************************************************)
\* CBNManager._merge_edges
_merge_edges(cbn, source_id, target_id) ==
    IF source_id \notin DOMAIN cbn.edges \/ target_id \notin DOMAIN cbn.edges THEN cbn
    ELSE LET source_edge    == cbn.edges[source_id]
             target_edge    == cbn.edges[target_id]
             source_node_id == source_edge.source
             target_node_id == source_edge.target
             evidence       == MergeEvidence(target_edge.evidence, source_edge.evidence)
             new_confidence == _calculate_aggregate_confidence(evidence)
             new_modifier   == _calculate_aggregate_modifier(evidence)
             merged == [target_edge EXCEPT
                          !.evidence = evidence,
                          !.aggregate_confidence = new_confidence,
                          !.modifier  = new_modifier,
                          !.direction = IF RGe(new_modifier, RInt(0)) THEN "positive"
                                        ELSE "negative",
                          !.strength  = RAbs(new_modifier),
                          !.explanation  = IF @ = "" /\ source_edge.explanation # ""
                                           THEN source_edge.explanation ELSE @,
                          !.source_label = IF @ = <<>> /\ source_edge.source_label # <<>>
                                           THEN source_edge.source_label ELSE @,
                          !.target_label = IF @ = <<>> /\ source_edge.target_label # <<>>
                                           THEN source_edge.target_label ELSE @]
             c1 == PutEdge(cbn, target_id, merged)
             c2 == IF source_node_id \in DOMAIN c1.nodes
                   THEN [c1 EXCEPT !.nodes[source_node_id].outgoing_edges =
                                       RemoveFirst(@, source_id)]
                   ELSE c1
             c3 == IF target_node_id \in DOMAIN c2.nodes
                   THEN [c2 EXCEPT !.nodes[target_node_id].incoming_edges =
                                       RemoveFirst(@, source_id)]
                   ELSE c2
         IN  DelEdge(c3, source_id)

\* a scan that keeps the edge it saw first for every node pair
RECURSIVE DuplicateEdgeCandidates_KeepFirst(_, _, _)
DuplicateEdgeCandidates_KeepFirst(cbn, edge_ids, seen) ==
    IF edge_ids = <<>> THEN <<>>
    ELSE LET edge_id == Head(edge_ids)
             edge == cbn.edges[edge_id]
             node_pair == <<edge.source, edge.target>>
             with_pair == [q \in (DOMAIN seen) \cup {node_pair} |->
                              IF q = node_pair THEN edge_id ELSE seen[q]]
         IN  IF edge_id \notin DOMAIN cbn.edges
             THEN DuplicateEdgeCandidates_KeepFirst(cbn, Tail(edge_ids), seen)
             ELSE IF node_pair \in DOMAIN seen
                  THEN <<<<edge_id, seen[node_pair]>>>>
                       \o DuplicateEdgeCandidates_KeepFirst(cbn, Tail(edge_ids), seen)
                  ELSE DuplicateEdgeCandidates_KeepFirst(cbn, Tail(edge_ids), with_pair)

\* lines 686-719: scan the merged node's incoming + outgoing edge ids and collect the
\* (source edge, target edge) merge candidates; seen maps a node pair to its best edge
RECURSIVE DuplicateEdgeCandidates(_, _, _)
DuplicateEdgeCandidates(cbn, edge_ids, seen) ==
    IF edge_ids = <<>> THEN <<>>
    ELSE LET edge_id == Head(edge_ids)
             edge == cbn.edges[edge_id]
             node_pair == <<edge.source, edge.target>>
             existing_edge_id == seen[node_pair]
             existing_edge == cbn.edges[existing_edge_id]
             keep_existing ==
                 \/ RGt(existing_edge.aggregate_confidence, edge.aggregate_confidence)
                 \/ /\ existing_edge.aggregate_confidence = edge.aggregate_confidence
                    /\ Len(existing_edge.evidence) >= Len(edge.evidence)
             with_pair == [q \in (DOMAIN seen) \cup {node_pair} |->
                              IF q = node_pair THEN edge_id ELSE seen[q]]
         IN  IF edge_id \notin DOMAIN cbn.edges
             THEN DuplicateEdgeCandidates(cbn, Tail(edge_ids), seen)
             ELSE IF node_pair \in DOMAIN seen
                  THEN IF keep_existing
                       THEN <<<<edge_id, existing_edge_id>>>>
                            \o DuplicateEdgeCandidates(cbn, Tail(edge_ids), seen)
                       ELSE <<<<existing_edge_id, edge_id>>>>
                            \o DuplicateEdgeCandidates(cbn, Tail(edge_ids), with_pair)
                  ELSE DuplicateEdgeCandidates(cbn, Tail(edge_ids), with_pair)

\* lines 725-740
RECURSIVE ApplyEdgeMerges(_, _)
ApplyEdgeMerges(cbn, merge_candidates) ==
    IF merge_candidates = <<>> THEN cbn
    ELSE ApplyEdgeMerges(_merge_edges(cbn, Head(merge_candidates)[1], Head(merge_candidates)[2]),
                         Tail(merge_candidates))

\* CBNManager._merge_duplicate_edges_after_node_merge
_merge_duplicate_edges_after_node_merge(cbn, target_id) ==
    IF target_id \notin DOMAIN cbn.nodes THEN cbn
    ELSE LET target_node == cbn.nodes[target_id]
         IN  ApplyEdgeMerges(cbn,
                DuplicateEdgeCandidates(cbn,
                    target_node.incoming_edges \o target_node.outgoing_edges,
                    [q \in {} |-> None]))

(***************************************************************************)
(* QA recording (cbn_manager.py add_qa_to_graph 883-1025)                  *)
(***************************************************************************)
\* lines 913-967: the extracted pair of the QA record, and the edge's evidence for this QA
RecordEdge(cbn, qa_id, edge_id) ==
    IF edge_id = None \/ edge_id \notin DOMAIN cbn.edges
    THEN [cbn |-> cbn, extracted_pairs |-> <<>>]
    ELSE LET edge == cbn.edges[edge_id]
             source_label == IF edge.source_label = <<>> /\ edge.source \in DOMAIN cbn.nodes
                             THEN cbn.nodes[edge.source].label ELSE edge.source_label
             target_label == IF edge.target_label = <<>> /\ edge.target \in DOMAIN cbn.nodes
                             THEN cbn.nodes[edge.target].label ELSE edge.target_label
             confidence == edge.aggregate_confidence
             modifier   == edge.modifier
             pair == [edge_id |-> edge_id, source |-> edge.source, target |-> edge.target,
                      source_label |-> source_label, target_label |-> target_label,
                      confidence |-> confidence, modifier |-> modifier,
                      direction |-> IF RGe(modifier, RInt(0)) THEN "positive" ELSE "negative"]
             evidence == Append(edge.evidence,
                            [qa_id |-> qa_id, confidence |-> confidence,
                             original_modifier |->
                                 RDiv(modifier, RMax(confidence, R(1, 100)))])
         IN  [cbn |-> IF qa_exists(edge.evidence, qa_id) THEN cbn
                      ELSE PutEdge(cbn, edge_id,
                             [edge EXCEPT
                                !.evidence = evidence,
                                !.aggregate_confidence = _calculate_aggregate_confidence(evidence),
                                !.modifier = _calculate_aggregate_modifier(evidence)]),
              extracted_pairs |-> <<pair>>]

\* lines 972-1011: one extracted node (keyed by the oracle's own node id)
RecordNode(cbn, qa_id, node_data) ==
    IF node_data.key \notin DOMAIN cbn.nodes THEN cbn
    ELSE LET node == cbn.nodes[node_data.key]
             evidence == Append(node.evidence,
                            [qa_id |-> qa_id, confidence |-> node_data.aggregate_confidence,
                             importance |-> node_data.importance])
         IN  IF qa_exists(node.evidence, qa_id) THEN cbn
             ELSE PutNode(cbn, node_data.key,
                    [node EXCEPT
                       !.evidence = evidence,
                       !.frequency = node.frequency + 1,
                       !.aggregate_confidence = _calculate_node_aggregate_confidence(evidence),
                       !.importance = _calculate_node_importance(evidence)])

RECURSIVE RecordNodes(_, _, _)
RecordNodes(cbn, qa_id, extracted_nodes) ==
    IF extracted_nodes = <<>> THEN cbn
    ELSE RecordNodes(RecordNode(cbn, qa_id, Head(extracted_nodes)), qa_id,
                     Tail(extracted_nodes))

\* line 974-981: the node entries of the QA record
NodeEntries(cbn, extracted_nodes) ==
    [i \in 1..Len(extracted_nodes) |->
        [node_id    |-> extracted_nodes[i].key,
         label      |-> extracted_nodes[i].label,
         confidence |-> extracted_nodes[i].aggregate_confidence,
         importance |-> extracted_nodes[i].importance,
         status     |-> IF extracted_nodes[i].key \in DOMAIN cbn.nodes
                        THEN cbn.nodes[extracted_nodes[i].key].status ELSE "candidate"]]

\* CBNManager.add_qa_to_graph (qa_pair['id'] is the id assigned by update_cbn_with_qa)
add_qa_to_graph(cbn, qa_id, extracted_nodes, edge_id) ==
    LET r  == RecordEdge(cbn, qa_id, edge_id)
        c1 == RecordNodes(r.cbn, qa_id, extracted_nodes)
        qa_entry == [extracted_pairs |-> r.extracted_pairs,
                     extracted_nodes |-> NodeEntries(r.cbn, extracted_nodes)]
    IN  [c1 EXCEPT !.qa_history = [q \in (DOMAIN @) \cup {qa_id} |->
                                      IF q = qa_id THEN qa_entry ELSE @[q]]]

(***************************************************************************)
(* Promotion and phase (cbn_manager.py 1059-1080, 1178-1231)               *)
(***************************************************************************)
\* self.max_anchors
max_anchors == 25

\* the promotion test without the limit on the number of anchors
ShouldPromote_NoCap(node, node_id, anchor_queue) ==
    /\ \/ node.frequency >= 2
       \/ RGt(node.importance, R(85, 100)) /\ RGt(node.aggregate_confidence, R(85, 100))
       \/ Len(node.incoming_edges) + Len(node.outgoing_edges) > 0
    /\ ~Contains(anchor_queue, node_id)

\* a promotion test that looks at the frequency alone
ShouldPromote_ByFrequency(node, node_id, anchor_queue) ==
    /\ node.frequency >= 2
    /\ ~Contains(anchor_queue, node_id)
    /\ Len(anchor_queue) < max_anchors

\* the promotion test of lines 1215-1217 for one candidate node
ShouldPromote(node, node_id, anchor_queue) ==
    /\ \/ node.frequency >= 2
       \/ RGt(node.importance, R(85, 100)) /\ RGt(node.aggregate_confidence, R(85, 100))
       \/ Len(node.incoming_edges) + Len(node.outgoing_edges) > 0
    /\ ~Contains(anchor_queue, node_id)
    /\ Len(anchor_queue) < max_anchors

\* a promotion that marks the node an anchor without queueing it
Promote_StatusOnly(cbn, node_id) ==
    [cbn EXCEPT !.nodes[node_id].status = "anchor"]

\* lines 1228-1231: node['status'] = 'anchor'; self.anchor_queue.append(node_id)
Promote(cbn, node_id) ==
    [cbn EXCEPT !.nodes[node_id].status = "anchor",
                !.anchor_queue = Append(@, node_id)]

\* the loop of lines 1189-1231; self.anchor_queue is the CBN's own list (line 1187)
RECURSIVE PromoteLoop(_, _)
PromoteLoop(cbn, node_ids) ==
    IF node_ids = <<>> THEN cbn
    ELSE LET node_id == Head(node_ids)
             node == cbn.nodes[node_id]
         IN  PromoteLoop(
                IF node.status = "candidate" /\ ShouldPromote(node, node_id, cbn.anchor_queue)
                THEN Promote(cbn, node_id)
                ELSE cbn,
                Tail(node_ids))

\* CBNManager._check_node_promotion
_check_node_promotion(cbn) == PromoteLoop(cbn, cbn.node_ids)

(***************************************************************************)
(* The manager's fields (cbn_manager.py __init__ 110-131)                  *)
(*   anchor_queue_ref: self.anchor_queue is a reference: "self" for the    *)
(*   manager's own initial list, else the session whose CBN list it aliases*)
(***************************************************************************)
NewManager ==
    [anchor_queue_ref    |-> "self",
     current_step        |-> 1,
     terminate_interview |-> FALSE,
     stable_rounds       |-> 0]

\* the list self.anchor_queue currently refers to
ManagerAnchorQueue(m, store) ==
    IF m.anchor_queue_ref = "self" THEN <<>> ELSE store[m.anchor_queue_ref].anchor_queue

\* self.max_qa_count
max_qa_count == 50

EdgeCount(node) == Len(node.incoming_edges) + Len(node.outgoing_edges)

\* CBNManager._check_structure_convergence: <<result, stable_rounds'>>
_check_structure_convergence(cbn, stable_rounds) ==
    LET candidate_count == Cardinality({k \in DOMAIN cbn.nodes :
                                           cbn.nodes[k].status = "candidate"})
    IN  IF candidate_count = 0 /\ stable_rounds >= 3 THEN <<TRUE, stable_rounds>>
        ELSE IF candidate_count > 0 THEN <<FALSE, 0>>
        ELSE <<FALSE, stable_rounds + 1>>

\* the evaluation rounds in a row, this one included, in which
\* _check_structure_convergence counted zero candidate nodes (a history of
\* the calls; check_termination returns before the count at max_qa_count)
RoundsWithoutCandidate(cbn, zero_rounds) ==
    IF Cardinality(DOMAIN cbn.qa_history) >= max_qa_count THEN zero_rounds
    ELSE IF \E k \in DOMAIN cbn.nodes : cbn.nodes[k].status = "candidate" THEN 0
    ELSE zero_rounds + 1

\* CBNManager._check_info_gain_saturation, over the list self.anchor_queue refers to
_check_info_gain_saturation(cbn, anchor_queue) ==
    /\ \A i \in 1..Len(anchor_queue) :
          anchor_queue[i] \in DOMAIN cbn.nodes => EdgeCount(cbn.nodes[anchor_queue[i]]) >= 2
    /\ Len(anchor_queue) > 0

\* _all_anchors_expanded asking for 2 connections instead of 3
_check_redundancy_saturation_Two(cbn, anchor_queue) ==
    /\ \A i \in 1..Len(anchor_queue) :
          anchor_queue[i] \in DOMAIN cbn.nodes => EdgeCount(cbn.nodes[anchor_queue[i]]) >= 2
    /\ Len(anchor_queue) > 0

\* CBNManager._check_redundancy_saturation / _all_anchors_expanded
_check_redundancy_saturation(cbn, anchor_queue) ==
    /\ \A i \in 1..Len(anchor_queue) :
          anchor_queue[i] \in DOMAIN cbn.nodes => EdgeCount(cbn.nodes[anchor_queue[i]]) >= 3
    /\ Len(anchor_queue) > 0

\* check_termination without the test of the number of QA pairs
check_termination_NoCap(cbn, m, anchor_queue) ==
    LET sc == _check_structure_convergence(cbn, m.stable_rounds)
        m1 == [m EXCEPT !.stable_rounds = sc[2]]
    IN  IF /\ sc[1]
           /\ _check_info_gain_saturation(cbn, anchor_queue)
           /\ _check_redundancy_saturation(cbn, anchor_queue)
        THEN [m1 EXCEPT !.terminate_interview = TRUE]
        ELSE m1

\* check_termination with the flag assigned the outcome of the conditions at
\* every call
check_termination_Recompute(cbn, m, anchor_queue) ==
    IF Cardinality(DOMAIN cbn.qa_history) >= max_qa_count
    THEN [m EXCEPT !.terminate_interview = TRUE]
    ELSE LET sc == _check_structure_convergence(cbn, m.stable_rounds)
         IN  [m EXCEPT !.stable_rounds = sc[2],
                       !.terminate_interview =
                           /\ sc[1]
                           /\ _check_info_gain_saturation(cbn, anchor_queue)
                           /\ _check_redundancy_saturation(cbn, anchor_queue)]

\* CBNManager.check_termination: the manager after the call (the result is
\* its terminate_interview)
check_termination(cbn, m, anchor_queue) ==
    IF Cardinality(DOMAIN cbn.qa_history) >= max_qa_count
    THEN [m EXCEPT !.terminate_interview = TRUE]
    ELSE LET sc == _check_structure_convergence(cbn, m.stable_rounds)
             m1 == [m EXCEPT !.stable_rounds = sc[2]]
         IN  IF /\ sc[1]
                /\ _check_info_gain_saturation(cbn, anchor_queue)
                /\ _check_redundancy_saturation(cbn, anchor_queue)
             THEN [m1 EXCEPT !.terminate_interview = TRUE]
             ELSE m1

\* get_next_step with the step computed afresh from the queue at every call
get_next_step_Recompute(cbn, m, s) ==
    [m EXCEPT !.anchor_queue_ref = s,
              !.current_step = IF Len(cbn.anchor_queue) >= 5 THEN 2 ELSE 1]

\* CBNManager.get_next_step: the manager after the call; `s` is the session whose
\* CBN is passed ('anchor_queue' is always a key of it, app.py 321-322)
get_next_step(cbn, m, s) ==
    LET m1 == [m EXCEPT !.anchor_queue_ref = s]
    IN  IF m1.current_step = 1 /\ Len(cbn.anchor_queue) >= 5
        THEN [m1 EXCEPT !.current_step = 2]
        ELSE m1

(***************************************************************************)
(* Output of the extraction oracle for one QA pair                         *)
(***************************************************************************)
LabelA  == <<"a", " ", "b", " ", "c">>
LabelA2 == <<"a", " ", "b", " ", "c", " ", "d">>
LabelA3 == <<"A", " ", "b", " ", "c">>
LabelS2 == <<"s", "-", "f", " ", "x">>
LabelA4 == <<"a", "-", "b", " ", "c", " ", "d">>
LabelU  == <<"u">>

\* a node candidate without a label: node.get('label', '') is '' (app.py 705)
NoLabel == <<>>
LabelB  == <<"y">>

Low  == [aggregate_confidence |-> R(1, 2),  importance |-> R(1, 2)]
High == [aggregate_confidence |-> R(9, 10), importance |-> R(9, 10)]

Cand(label, score) ==
    [label |-> label, aggregate_confidence |-> score.aggregate_confidence,
     importance |-> score.importance]

\* the oracle keys its nodes "n_<normalised label>_<uuid>" (llm_extractor.py 330):
\* never an id of the graph; here the position in the list stands for the uuid
WithKeys(cands) ==
    [i \in 1..Len(cands) |->
        [key |-> "n_" \o ToString(i), label |-> cands[i].label,
         aggregate_confidence |-> cands[i].aggregate_confidence,
         importance |-> cands[i].importance]]

\* node lists reported together with an edge candidate, and without one
EdgeNodeLists ==
    {<<Cand(LabelA, Low), c2>> : c2 \in {Cand(LabelA2, High), Cand(LabelB, High)}}
PlainNodeLists ==
    {<<>>, <<Cand(LabelA2, High)>>}
        \cup {<<Cand(LabelA, Low), Cand(LabelA3, High)>>,
              <<Cand(LabelS2, Low), Cand(LabelS2, Low)>>,
              <<Cand(LabelA2, High), Cand(LabelA4, High)>>,
              <<Cand(NoLabel, High)>>}

OracleNodeLists == EdgeNodeLists \cup PlainNodeLists

DigitSeq == <<"0", "1", "2", "3", "4", "5", "6", "7", "8", "9">>

\* the one-word label "w<k>" of the k-th seeded factor
SeedLabel(k) == <<"w", DigitSeq[((k \div 10) % 10) + 1], DigitSeq[(k % 10) + 1]>>

LabelC == <<"z">>

\* the i-th answer of an interview that fills in the graph around two factors:
\* three answers give an edge from the first factor to the stance, three an edge
\* from the second, the 7th names a variant of the first factor, the 8th a factor
\* that stays a candidate, the others repeat the two factors
TermNodes(i) ==
    IF i = 7 THEN <<Cand(LabelA, Low), Cand(LabelA2, High)>>
    ELSE IF i = 8 THEN <<Cand(LabelC, Low)>>
    ELSE <<Cand(LabelA, Low), Cand(LabelB, High)>>

\* answers that name a factor and a variant of its label in turn
VariantNodes(k) ==
    IF k % 2 = 0 THEN <<Cand(LabelA2, High)>> ELSE <<Cand(LabelA, Low)>>

\* what the oracle extracts from the next answer of a session: while the session
\* has seeded answers left, the next seeded factor (or the next answer of the
\* interviews above); then any list of the menu
AnswerNodeLists(request) ==
    IF request.seed > 0
    THEN IF request.script = "saturate" THEN {TermNodes(TermQas - request.seed + 1)}
         ELSE IF request.script = "variants" THEN {VariantNodes(request.seed)}
         ELSE {<<Cand(SeedLabel(request.seed), High)>>}
    ELSE OracleNodeLists

\* extract_edge returned None (no edge found)
NoEdge ==
    [from_label |-> <<>>, to_label |-> <<>>, direction |-> "", strength |-> RInt(0),
     aggregate_confidence |-> RInt(0), explanation |-> "", own_id |-> FALSE]

\* edge candidates that name a factor the oracle reported no node for
UnmatchedEdges(new_nodes) ==
    {[from_label |-> ends[1], to_label |-> ends[2],
      direction |-> "negative", strength |-> R(4, 5),
      aggregate_confidence |-> R(1, 2),
      explanation |-> "because", own_id |-> TRUE] :
        ends \in {<<new_nodes[1].label, LabelU>>, <<LabelU, stance_label>>}}

\* edge candidates the oracle may report next to a list of node candidates;
\* own_id: the QA id carried in support_qas is the one the engine assigns
OracleEdges(new_nodes) ==
    {NoEdge} \cup
    IF new_nodes \notin EdgeNodeLists THEN {}
    ELSE {[from_label |-> ends[1], to_label |-> ends[2],
           direction |-> "negative", strength |-> R(4, 5),
           aggregate_confidence |-> conf,
           explanation |-> ex, own_id |-> own] :
             ends \in {<<new_nodes[1].label, new_nodes[2].label>>,
                       <<new_nodes[1].label, stance_label>>,
                       <<new_nodes[2].label, stance_label>>},
             conf \in {R(1, 2), R(9, 10)},
             ex \in {"", "because"},
             own \in BOOLEAN}
         \cup {[from_label |-> new_nodes[1].label, to_label |-> stance_label,
                direction |-> "negative", strength |-> NoStrength,
                aggregate_confidence |-> R(7, 10),
                explanation |-> "", own_id |-> TRUE]}
         \cup UnmatchedEdges(new_nodes)

\* the edge candidate of the i-th answer of the interview of TermNodes
TermEdge(i) ==
    IF i > 6 THEN NoEdge
    ELSE [from_label |-> IF i <= 3 THEN LabelA ELSE LabelB, to_label |-> stance_label,
          direction |-> "negative", strength |-> R(4, 5),
          aggregate_confidence |-> R(1, 2), explanation |-> "because", own_id |-> TRUE]

\* the edge candidates the oracle may report for the next answer of a session
AnswerEdges(request, new_nodes) ==
    IF request.seed > 0 /\ request.script = "saturate"
    THEN {TermEdge(TermQas - request.seed + 1)}
    ELSE OracleEdges(new_nodes)

(***************************************************************************)
(* process_answer / update_cbn_with_qa as a sequence of steps              *)
(***************************************************************************)
\* the locals of one request; left / seed: the answers the session still gives.
\* next_step and question_anchors are the step and the anchor list process_answer
\* hands to the question generator; checked tells whether the update in flight
\* has evaluated check_termination; alone is the manager an engine serving this
\* session only would hold after the same calls.
IdleRequest ==
    [pc |-> "idle", qa_id |-> None, new_nodes |-> <<>>, edge |-> NoEdge,
     edge_id |-> None, merge_candidates |-> <<>>, current_step |-> None, left |-> 0,
     seed |-> 0, next_step |-> 0, question_anchors |-> <<>>, checked |-> FALSE,
     alone |-> NewManager, script |-> "factors", checks |-> 0, zero_rounds |-> 0]

\* the engine call made by a step: its name, the session, the CBN before the call
\* and the ids the call was given or returned
Op(name, s, before, a, b) ==
    [name |-> name, session |-> s, before |-> before, source |-> a, target |-> b]

\* start-up: no session has a CBN. Every CBN is the one kept in cbn_store; a CBN
\* sent along by the client in place of the stored one is not modelled.
InitFor(sessions) ==
    /\ cbn_store = [k \in {} |-> NewCbn]
    /\ mgr = NewManager
    /\ rq = [s \in sessions |-> [IdleRequest EXCEPT !.left = MaxQa]]
    /\ last_op = Op("init", None, NewCbn, None, None)

Init == InitFor({"s1"})

\* app.py 232-322 (the session's CBN, created on its first request) and
\* update_cbn_with_qa 663-765 (QA id, ingestion of the extracted nodes)
ProcessAnswer(s, new_nodes, edge) ==
    /\ rq[s].pc = "idle"
    /\ rq[s].seed > 0 \/ rq[s].left > 0
    /\ LET agent_cbn  == IF s \in DOMAIN cbn_store THEN cbn_store[s] ELSE NewCbn
           qa_counter == agent_cbn.qa_counter + 1
           qa_id      == "qa" \o ToString(qa_counter)
           c1         == [agent_cbn EXCEPT !.qa_counter = qa_counter]
           c2         == IngestNodes(c1, new_nodes, qa_id)
       IN  /\ cbn_store' = [k \in (DOMAIN cbn_store) \cup {s} |->
                               IF k = s THEN c2 ELSE cbn_store[k]]
           /\ rq' = [rq EXCEPT ![s] =
                       [@ EXCEPT !.pc = "edge", !.qa_id = qa_id, !.new_nodes = new_nodes,
                                 !.edge = edge, !.edge_id = None,
                                 !.current_step = agent_cbn.step, !.checked = FALSE]]
           /\ last_op' = Op("ingest", s, agent_cbn, None, None)
    /\ UNCHANGED mgr

\* the edge_data handed to add_edge: support_qas = [qa_pair.get('id')] is the
\* client's id of the QA pair (llm_extractor.py 152)
EdgeData(edge, qa_id) ==
    [from_label |-> edge.from_label, to_label |-> edge.to_label,
     direction |-> edge.direction, strength |-> edge.strength,
     aggregate_confidence |-> edge.aggregate_confidence,
     explanation |-> edge.explanation,
     support_qas |-> IF edge.own_id THEN <<qa_id>> ELSE <<"unknown_qa_id">>]

\* update_cbn_with_qa 776-807
ExtractAndAddEdge(cbn, new_nodes, oracle_edge, qa_id) ==
    LET edge == IF Len(new_nodes) >= 2 THEN oracle_edge ELSE NoEdge
    IN  IF edge = NoEdge THEN [cbn |-> cbn, edge_id |-> None]
        ELSE LET edge_data == EdgeData(edge, qa_id)
                 r == add_edge(cbn, edge_data)
             IN  IF r.edge_id # None /\ edge_data.strength \notin {RInt(0), NoStrength}
                 THEN [cbn |-> update_function_params(r.cbn, r.edge_id,
                                  [aggregate_confidence |-> edge_data.aggregate_confidence,
                                   strength |-> edge_data.strength]),
                       edge_id |-> r.edge_id]
                 ELSE r

AddEdge(s) ==
    /\ rq[s].pc = "edge"
    /\ LET r == ExtractAndAddEdge(cbn_store[s], rq[s].new_nodes, rq[s].edge, rq[s].qa_id)
       IN  /\ cbn_store' = [cbn_store EXCEPT ![s] = r.cbn]
           /\ rq' = [rq EXCEPT ![s] = [@ EXCEPT !.pc = "merge", !.edge_id = r.edge_id]]
           /\ last_op' = Op("add_edge", s, cbn_store[s], r.edge_id, None)
    /\ UNCHANGED mgr

\* merge_graph_components 298-301
FindMergeable(s) ==
    /\ rq[s].pc = "merge"
    /\ rq' = [rq EXCEPT ![s] = [@ EXCEPT !.pc = "merging",
                 !.merge_candidates = _find_mergeable_nodes(cbn_store[s])]]
    /\ last_op' = Op("_find_mergeable_nodes", s, cbn_store[s], None, None)
    /\ UNCHANGED <<cbn_store, mgr>>

\* the loop body that leaves every candidate pair unmerged
MergeLoopBody_Skip(cbn, source_id, target_id) == cbn

\* one iteration of the loop of merge_graph_components 307-322
MergeLoopBody(cbn, source_id, target_id) ==
    IF source_id \notin DOMAIN cbn.nodes \/ target_id \notin DOMAIN cbn.nodes THEN cbn
    ELSE _merge_duplicate_edges_after_node_merge(_merge_nodes(cbn, source_id, target_id),
                                                 target_id)

MergeStep(s) ==
    /\ rq[s].pc = "merging"
    /\ rq[s].merge_candidates # <<>>
    /\ LET source_id == Head(rq[s].merge_candidates)[1]
           target_id == Head(rq[s].merge_candidates)[2]
           cbn == cbn_store[s]
           skipped == source_id \notin DOMAIN cbn.nodes \/ target_id \notin DOMAIN cbn.nodes
       IN  /\ cbn_store' = [cbn_store EXCEPT ![s] = MergeLoopBody(cbn, source_id, target_id)]
           /\ last_op' = Op(IF skipped THEN "skip_merge" ELSE "_merge_nodes", s, cbn,
                            source_id, target_id)
    /\ rq' = [rq EXCEPT ![s] = [@ EXCEPT !.merge_candidates = Tail(@)]]
    /\ UNCHANGED mgr

\* merge_graph_components 328-330: promotion check after the merge pass
MergePromote(s) ==
    /\ rq[s].pc = "merging"
    /\ rq[s].merge_candidates = <<>>
    /\ cbn_store' = [cbn_store EXCEPT ![s] = _check_node_promotion(@)]
    /\ mgr' = [mgr EXCEPT !.anchor_queue_ref = s]
    /\ rq' = [rq EXCEPT ![s] = [@ EXCEPT !.pc = "record", !.alone.anchor_queue_ref = s]]
    /\ last_op' = Op("_check_node_promotion", s, cbn_store[s], None, None)

\* update_cbn_with_qa 856-864
RecordQa(s) ==
    /\ rq[s].pc = "record"
    /\ cbn_store' = [cbn_store EXCEPT ![s] =
           add_qa_to_graph(@, rq[s].qa_id, rq[s].new_nodes,
                           IF rq[s].edge # NoEdge /\ Len(rq[s].new_nodes) >= 2
                           THEN rq[s].edge_id ELSE None)]
    /\ rq' = [rq EXCEPT ![s] = [@ EXCEPT !.pc = "promote"]]
    /\ last_op' = Op("add_qa_to_graph", s, cbn_store[s], rq[s].edge_id, None)
    /\ UNCHANGED mgr

\* update_cbn_with_qa 868-886
FinalPromote(s) ==
    /\ rq[s].pc = "promote"
    /\ LET c1 == _check_node_promotion(cbn_store[s])
           m1 == [mgr EXCEPT !.anchor_queue_ref = s]
           a1 == [rq[s].alone EXCEPT !.anchor_queue_ref = s]
           checks == rq[s].current_step = "edge_construction"
       IN  /\ cbn_store' = [cbn_store EXCEPT ![s] = c1]
           /\ mgr' = IF checks THEN check_termination(c1, m1, c1.anchor_queue) ELSE m1
           /\ rq' = [rq EXCEPT ![s] =
                       [@ EXCEPT !.pc = "next_step", !.checked = checks,
                                 !.zero_rounds = IF checks
                                                 THEN RoundsWithoutCandidate(c1, @) ELSE @,
                                 !.alone = IF checks
                                           THEN check_termination(c1, a1, c1.anchor_queue)
                                           ELSE a1]]
    /\ last_op' = Op("_check_node_promotion", s, cbn_store[s], None, None)

\* process_answer 334-347: the updated CBN is stored and the phase is evaluated
NextStep(s) ==
    /\ rq[s].pc = "next_step"
    /\ mgr' = get_next_step(cbn_store[s], mgr, s)
    /\ rq' = [rq EXCEPT ![s] = [@ EXCEPT !.pc = "questions",
                                    !.next_step = mgr'.current_step,
                                    !.alone = get_next_step(cbn_store[s], @, s),
                                    !.seed = IF @ > 0 THEN @ - 1 ELSE @,
                                    !.left = IF rq[s].seed > 0 THEN @ ELSE @ - 1]]
    /\ last_op' = Op("get_next_step", s, cbn_store[s], None, None)
    /\ UNCHANGED cbn_store

\* process_answer 441-450: follow-up questions are generated from the stored CBN,
\* the step get_next_step returned and the list cbn_manager.anchor_queue refers to
\* at that moment
GenerateQuestions(s) ==
    /\ rq[s].pc = "questions"
    /\ rq' = [rq EXCEPT ![s] = [@ EXCEPT !.pc = "idle",
                 !.question_anchors = ManagerAnchorQueue(mgr, cbn_store)]]
    /\ last_op' = Op("generate_follow_up_questions", s, cbn_store[s], None, None)
    /\ UNCHANGED <<cbn_store, mgr>>

Next ==
    \/ \E s \in DOMAIN rq : \E new_nodes \in AnswerNodeLists(rq[s]) :
          \E edge \in AnswerEdges(rq[s], new_nodes) :
              ProcessAnswer(s, WithKeys(new_nodes), edge)
    \/ \E s \in DOMAIN rq : AddEdge(s)
    \/ \E s \in DOMAIN rq : FindMergeable(s)
    \/ \E s \in DOMAIN rq : MergeStep(s)
    \/ \E s \in DOMAIN rq : MergePromote(s)
    \/ \E s \in DOMAIN rq : RecordQa(s)
    \/ \E s \in DOMAIN rq : FinalPromote(s)
    \/ \E s \in DOMAIN rq : NextStep(s)
    \/ \E s \in DOMAIN rq : GenerateQuestions(s)

Spec == Init /\ [][Next]_vars

\* one session that first gives SeedQas answers naming one new factor each, which
\* brings its anchor queue to SeedQas + 1 entries, and then CapQa answers of the menu
InitCap ==
    /\ cbn_store = [k \in {} |-> NewCbn]
    /\ mgr = NewManager
    /\ rq = [s \in {"s1"} |-> [IdleRequest EXCEPT !.left = CapQa, !.seed = SeedQas]]
    /\ last_op = Op("init", None, NewCbn, None, None)

SpecCap == InitCap /\ [][Next]_vars

\* two sessions served by the one engine: "s1" gives TwoSeedA answers naming one
\* new factor each, "s2" gives TwoSeedB answers naming variants of one factor;
\* their requests interleave
InitTwo ==
    /\ cbn_store = [k \in {} |-> NewCbn]
    /\ mgr = NewManager
    /\ rq = [s \in {"s1", "s2"} |->
                IF s = "s1" THEN [IdleRequest EXCEPT !.seed = TwoSeedA]
                ELSE [IdleRequest EXCEPT !.seed = TwoSeedB, !.script = "variants"]]
    /\ last_op = Op("init", None, NewCbn, None, None)

SpecTwo == InitTwo /\ [][Next]_vars

\* a call of check_termination on the stored CBN of a session, between two of its
\* requests: the conditions are evaluated over the list self.anchor_queue refers to
CheckTermination(s) ==
    /\ s \in DOMAIN cbn_store
    /\ rq[s].pc = "idle"
    /\ rq[s].checks < MaxChecks
    /\ mgr' = check_termination(cbn_store[s], mgr, ManagerAnchorQueue(mgr, cbn_store))
    /\ rq' = [rq EXCEPT ![s] =
                [@ EXCEPT !.checks = @ + 1,
                          !.zero_rounds = RoundsWithoutCandidate(cbn_store[s], @),
                          !.alone = check_termination(cbn_store[s], @,
                                        ManagerAnchorQueue(@, cbn_store))]]
    /\ last_op' = Op("check_termination", s, cbn_store[s], mgr, mgr'.terminate_interview)
    /\ UNCHANGED cbn_store

NextTerm ==
    \/ Next
    \/ \E s \in DOMAIN rq : CheckTermination(s)

\* one session that gives the TermQas answers of the interview of TermNodes, with
\* up to MaxChecks evaluations of check_termination between its requests
InitTerm ==
    /\ cbn_store = [k \in {} |-> NewCbn]
    /\ mgr = NewManager
    /\ rq = [s \in {"s1"} |-> [IdleRequest EXCEPT !.seed = TermQas, !.script = "saturate"]]
    /\ last_op = Op("init", None, NewCbn, None, None)

SpecTerm == InitTerm /\ [][NextTerm]_vars

(***************************************************************************)
(* The aggregation functions applied to evidence lists                     *)
(***************************************************************************)
\* evidence entries with the keys the four functions read
EvidenceEntries ==
    {[qa_id |-> "qa1", confidence |-> c, importance |-> i, original_modifier |-> m] :
        c \in {RInt(0), R(1, 2), R(9, 10)},
        i \in {R(1, 2), R(9, 10)},
        m \in {R(-4, 5), R(4, 5)}}

EvidenceLists ==
    UNION {[1..n -> EvidenceEntries] : n \in 0..MaxEvidence}

Aggregated(name, evidence_list, result) ==
    /\ last_op' = Op(name, None, NewCbn, evidence_list, result)
    /\ UNCHANGED <<cbn_store, mgr, rq>>

AggregateConfidence(evidence_list) ==
    Aggregated("_calculate_aggregate_confidence", evidence_list,
               _calculate_aggregate_confidence(evidence_list))

AggregateModifier(evidence_list) ==
    Aggregated("_calculate_aggregate_modifier", evidence_list,
               _calculate_aggregate_modifier(evidence_list))

NodeAggregateConfidence(evidence_list) ==
    Aggregated("_calculate_node_aggregate_confidence", evidence_list,
               _calculate_node_aggregate_confidence(evidence_list))

NodeImportance(evidence_list) ==
    Aggregated("_calculate_node_importance", evidence_list,
               _calculate_node_importance(evidence_list))

NextAgg ==
    \/ \E evidence_list \in EvidenceLists : AggregateConfidence(evidence_list)
    \/ \E evidence_list \in EvidenceLists : AggregateModifier(evidence_list)
    \/ \E evidence_list \in EvidenceLists : NodeAggregateConfidence(evidence_list)
    \/ \E evidence_list \in EvidenceLists : NodeImportance(evidence_list)

SpecAgg == InitFor({}) /\ [][NextAgg]_vars

(***************************************************************************)
(* The service layer: models/cbn.py CausalBayesianNetwork and              *)
(* services/cbn_service.py CBNService. Its graphs are dicts of their own:  *)
(* nodes carry label, is_stance, confidence, source_qa and the edge lists. *)
(* uuid4 ids are drawn in sequence (data.uuids counts the draws).          *)
(***************************************************************************)
\* str.startswith
startswith(s, prefix) ==
    Len(prefix) <= Len(s) /\ SubSeq(s, 1, Len(prefix)) = prefix

\* keyword in s, for strings
HasSubstring(s, keyword) ==
    \E i \in 0..(Len(s) - Len(keyword)) : SubSeq(s, i + 1, i + Len(keyword)) = keyword

SupportFor == <<"S", "u", "p", "p", "o", "r", "t", " ", "f", "o", "r", " ">>
support_for == lower(SupportFor)
NoneWord == <<"n", "o", "n", "e">>
PolicyTopic == <<"p", "o", "l", "i", "c", "y">>

\* the data of a CausalBayesianNetwork with no node
default_structure ==
    [nodes |-> [k \in {} |-> None], node_ids |-> <<>>,
     edges |-> [k \in {} |-> None], edge_ids |-> <<>>,
     qa_history |-> <<>>, uuids |-> 0]

\* self.data["nodes"][node_id] = node
SetNode(data, node_id, node) ==
    [data EXCEPT !.nodes    = [k \in (DOMAIN data.nodes) \cup {node_id} |->
                                  IF k = node_id THEN node ELSE data.nodes[k]],
                 !.node_ids = IF node_id \in DOMAIN data.nodes THEN data.node_ids
                              ELSE Append(data.node_ids, node_id)]

\* self.data["edges"][edge_id] = edge
SetEdge(data, edge_id, edge) ==
    [data EXCEPT !.edges    = [k \in (DOMAIN data.edges) \cup {edge_id} |->
                                  IF k = edge_id THEN edge ELSE data.edges[k]],
                 !.edge_ids = IF edge_id \in DOMAIN data.edges THEN data.edge_ids
                              ELSE Append(data.edge_ids, edge_id)]

\* f"n_{uuid.uuid4().hex[:8]}" and the like: an id no earlier draw returned
uuid_id(data, prefix) == prefix \o ToString(data.uuids + 1)

\* the stance nodes in dict order (models/cbn.py 50-55)
stance_nodes(data) ==
    Filter(data.node_ids, {k \in DOMAIN data.nodes : data.nodes[k].is_stance})

\* models/cbn.py 57-62
StanceTopic(default_label) ==
    IF startswith(default_label, SupportFor)
    THEN LET extracted_topic == SubSeq(default_label, Len(SupportFor) + 1, Len(default_label))
         IN  IF extracted_topic # <<>> /\ lower(extracted_topic) # NoneWord
             THEN extracted_topic ELSE PolicyTopic
    ELSE PolicyTopic

\* models/cbn.py 80-111
node_score(data, node_id) ==
    LET lower_label == lower(data.nodes[node_id].label)
        has_none == HasSubstring(lower_label, NoneWord)
        has_proper_format == startswith(lower_label, support_for)
    IN  (IF has_none THEN -100 ELSE 0)
        + (IF has_proper_format THEN 50 ELSE 0)
        + (IF has_proper_format /\ Len(lower_label) > 12 THEN 25 ELSE 0)
        + Len(data.nodes[node_id].incoming_edges) * 5

\* sorted(ids, key=node_score, reverse=True): a stable sort, highest score first
RECURSIVE sorted_by_score(_, _)
sorted_by_score(data, ids) ==
    IF ids = <<>> THEN <<>>
    ELSE LET best == CHOOSE i \in 1..Len(ids) :
                        /\ \A j \in 1..Len(ids) :
                              node_score(data, ids[j]) <= node_score(data, ids[i])
                        /\ \A j \in 1..(i - 1) :
                              node_score(data, ids[j]) < node_score(data, ids[i])
         IN  <<ids[best]>> \o
             sorted_by_score(data, SubSeq(ids, 1, best - 1) \o SubSeq(ids, best + 1, Len(ids)))

\* models/cbn.py 122-131 and 164-174: the label of the stance node that is kept
FixedStanceLabel(node_label, topic, fix_empty) ==
    IF HasSubstring(lower(node_label), NoneWord) \/ (fix_empty /\ node_label = <<>>)
    THEN SupportFor \o topic
    ELSE IF ~startswith(lower(node_label), support_for)
         THEN SupportFor \o node_label
         ELSE node_label

\* models/cbn.py 137-145: the incoming edges of a removed stance node point
\* to the kept one
RECURSIVE RedirectToKept(_, _, _)
RedirectToKept(data, edge_ids, keep_node_id) ==
    IF edge_ids = <<>> THEN data
    ELSE LET edge_id == Head(edge_ids)
             keep == data.nodes[keep_node_id]
             d1 == IF edge_id \in DOMAIN data.edges
                   THEN SetNode(SetEdge(data, edge_id,
                                   [data.edges[edge_id] EXCEPT !.target = keep_node_id]),
                                keep_node_id,
                                IF Contains(keep.incoming_edges, edge_id) THEN keep
                                ELSE [keep EXCEPT !.incoming_edges = Append(@, edge_id)])
                   ELSE data
         IN  RedirectToKept(d1, Tail(edge_ids), keep_node_id)

\* models/cbn.py 133-157: one of the other stance nodes is removed
RemoveStanceNode(data, node_id, keep_node_id) ==
    LET d1 == RedirectToKept(data, data.nodes[node_id].incoming_edges, keep_node_id)
        remaining == (DOMAIN d1.nodes) \ {node_id}
        edges_to_remove == {e \in DOMAIN d1.edges :
                               d1.edges[e].source = node_id \/ d1.edges[e].target = node_id}
        kept_edges == (DOMAIN d1.edges) \ edges_to_remove
    IN  [d1 EXCEPT !.nodes    = [k \in remaining |-> d1.nodes[k]],
                   !.node_ids = Filter(d1.node_ids, remaining),
                   !.edges    = [e \in kept_edges |-> d1.edges[e]],
                   !.edge_ids = Filter(d1.edge_ids, kept_edges)]

RECURSIVE RemoveStanceNodes(_, _, _)
RemoveStanceNodes(data, ids, keep_node_id) ==
    IF ids = <<>> THEN data
    ELSE RemoveStanceNodes(RemoveStanceNode(data, Head(ids), keep_node_id),
                           Tail(ids), keep_node_id)

\* CausalBayesianNetwork.add_node's node
NewServiceNode(label, confidence, source_qa, is_stance) ==
    [label |-> label, is_stance |-> is_stance, confidence |-> confidence,
     source_qa |-> source_qa, incoming_edges |-> <<>>, outgoing_edges |-> <<>>]

\* CausalBayesianNetwork._ensure_stance_node
_ensure_stance_node(data, default_label) ==
    LET stance == stance_nodes(data)
        topic == StanceTopic(default_label)
    IN  IF Len(stance) = 0
        THEN SetNode([data EXCEPT !.uuids = @ + 1], uuid_id(data, "n_"),
                     NewServiceNode(default_label, RInt(1), <<>>, TRUE))
        ELSE IF Len(stance) > 1
        THEN LET sorted_stance_nodes == sorted_by_score(data, stance)
                 keep_node_id == sorted_stance_nodes[1]
                 keep_node == data.nodes[keep_node_id]
                 d1 == SetNode(data, keep_node_id,
                          [keep_node EXCEPT !.label = FixedStanceLabel(@, topic, FALSE)])
             IN  RemoveStanceNodes(d1, Tail(sorted_stance_nodes), keep_node_id)
        ELSE LET node == data.nodes[stance[1]]
             IN  SetNode(data, stance[1],
                         [node EXCEPT !.label = FixedStanceLabel(@, topic, TRUE)])

\* CausalBayesianNetwork.__init__(agent_id, existing_model)
\* existing_model is <<>> (None) or <<data>>
CausalBayesianNetwork(existing_model) ==
    _ensure_stance_node(IF existing_model = <<>> THEN default_structure ELSE existing_model[1],
                        SupportFor \o PolicyTopic)

\* CausalBayesianNetwork.get_stance_node_id
get_stance_node_id(data) ==
    LET stance == stance_nodes(data)
    IN  IF stance = <<>> THEN None ELSE stance[1]

\* CausalBayesianNetwork.get_node_by_label
get_node_by_label(data, label) ==
    LET hits == {i \in 1..Len(data.node_ids) :
                    lower(data.nodes[data.node_ids[i]].label) = lower(label)}
    IN  IF hits = {} THEN None
        ELSE data.node_ids[CHOOSE i \in hits : \A j \in hits : i <= j]

\* CausalBayesianNetwork.get_edge_by_nodes
get_edge_by_nodes(data, source_id, target_id) ==
    LET hits == {i \in 1..Len(data.edge_ids) :
                    /\ data.edges[data.edge_ids[i]].source = source_id
                    /\ data.edges[data.edge_ids[i]].target = target_id}
    IN  IF hits = {} THEN None
        ELSE data.edge_ids[CHOOSE i \in hits : \A j \in hits : i <= j]

\* CausalBayesianNetwork.add_qa: the pair (data, qa_id) as a record
add_qa(data, extracted_pairs) ==
    LET qa_id == uuid_id(data, "qa_")
    IN  [data |-> [data EXCEPT !.uuids = @ + 1,
                               !.qa_history = Append(@, [qa_id |-> qa_id,
                                                         extracted_pairs |-> extracted_pairs])],
         qa_id |-> qa_id]

\* CausalBayesianNetwork.add_node: the pair (data, node_id) as a record
add_node(data, label, confidence, source_qa, is_stance) ==
    LET node_id == uuid_id(data, "n_")
    IN  [data |-> SetNode([data EXCEPT !.uuids = @ + 1], node_id,
                          NewServiceNode(label, confidence, source_qa, is_stance)),
         node_id |-> node_id]

\* CausalBayesianNetwork.add_edge
add_service_edge(data, source_node_id, target_node_id, confidence, modifier, qa_id) ==
    LET edge_id == uuid_id(data, "e_")
        d1 == SetEdge([data EXCEPT !.uuids = @ + 1], edge_id,
                 [source |-> source_node_id, target |-> target_node_id,
                  aggregate_confidence |-> confidence,
                  evidence |-> <<[qa_id |-> qa_id, confidence |-> confidence]>>,
                  modifier |-> modifier])
        d2 == IF source_node_id \in DOMAIN d1.nodes
              THEN SetNode(d1, source_node_id,
                      [d1.nodes[source_node_id] EXCEPT !.outgoing_edges = Append(@, edge_id)])
              ELSE d1
    IN  IF target_node_id \in DOMAIN d2.nodes
        THEN SetNode(d2, target_node_id,
                [d2.nodes[target_node_id] EXCEPT !.incoming_edges = Append(@, edge_id)])
        ELSE d2

\* CausalBayesianNetwork.update_edge
update_edge(data, edge_id, qa_id, confidence) ==
    IF edge_id \notin DOMAIN data.edges THEN data
    ELSE LET evidences == Append(data.edges[edge_id].evidence,
                                 [qa_id |-> qa_id, confidence |-> confidence])
         IN  SetEdge(data, edge_id,
                [data.edges[edge_id] EXCEPT
                    !.evidence = evidences,
                    !.aggregate_confidence =
                        RDiv(RSum(Confidences(evidences)), RInt(Len(evidences)))])

stance_keywords ==
    {<<"s", "u", "p", "p", "o", "r", "t">>, <<"o", "p", "p", "o", "s", "e">>,
     <<"a", "g", "r", "e", "e">>, <<"d", "i", "s", "a", "g", "r", "e", "e">>,
     <<"a", "p", "p", "r", "o", "v", "e">>,
     <<"d", "i", "s", "a", "p", "p", "r", "o", "v", "e">>,
     <<"i", "n", " ", "f", "a", "v", "o", "r">>, <<"a", "g", "a", "i", "n", "s", "t">>,
     <<"p", "r", "o">>, <<"a", "n", "t", "i">>, <<"e", "n", "d", "o", "r", "s", "e">>,
     <<"r", "e", "j", "e", "c", "t">>, <<"s", "t", "a", "n", "c", "e">>,
     <<"p", "o", "s", "i", "t", "i", "o", "n">>, <<"o", "p", "i", "n", "i", "o", "n">>,
     <<"v", "i", "e", "w">>, <<"v", "o", "t", "e">>, <<"c", "h", "o", "o", "s", "e">>,
     <<"d", "e", "c", "i", "s", "i", "o", "n">>}

\* a labelling that takes no extracted label for a stance belief
_is_stance_belief_Never(label) == FALSE

\* CBNService._is_stance_belief
_is_stance_belief(label) ==
    \E keyword \in stance_keywords : HasSubstring(lower(label), keyword)

influence_keywords ==
    {<<"i", "m", "p", "a", "c", "t">>, <<"e", "f", "f", "e", "c", "t">>,
     <<"b", "e", "n", "e", "f", "i", "t">>, <<"h", "a", "r", "m">>,
     <<"c", "o", "n", "s", "e", "q", "u", "e", "n", "c", "e">>,
     <<"r", "e", "s", "u", "l", "t">>, <<"o", "u", "t", "c", "o", "m", "e">>,
     <<"c", "h", "a", "n", "g", "e">>, <<"i", "m", "p", "r", "o", "v", "e">>,
     <<"w", "o", "r", "s", "e", "n">>, <<"i", "n", "c", "r", "e", "a", "s", "e">>,
     <<"d", "e", "c", "r", "e", "a", "s", "e">>}

\* CBNService._connect_to_stance_node; labels are the keys of node_map in
\* insertion order
RECURSIVE _connect_to_stance_node(_, _, _, _, _)
_connect_to_stance_node(data, stance_node_id, labels, node_map, qa_id) ==
    IF labels = <<>> THEN data
    ELSE LET node_id == node_map[Head(labels)]
         IN  IF /\ \E keyword \in influence_keywords :
                      HasSubstring(lower(Head(labels)), keyword)
                /\ get_edge_by_nodes(data, node_id, stance_node_id) = None
             THEN add_service_edge(data, node_id, stance_node_id, R(7, 10), R(4, 5), qa_id)
             ELSE _connect_to_stance_node(data, stance_node_id, Tail(labels), node_map, qa_id)

\* services/cbn_service.py 175-202: one extracted node; st is the record
\* (data, node_map, labels)
ServiceNode(st, node, qa_id) ==
    LET data == st.data
        existing_node_id == get_node_by_label(data, node.label)
        put(node_id) == [k \in (DOMAIN st.node_map) \cup {node.label} |->
                            IF k = node.label THEN node_id ELSE st.node_map[k]]
        labels == IF node.label \in DOMAIN st.node_map THEN st.labels
                  ELSE Append(st.labels, node.label)
    IN  IF existing_node_id # None
        THEN LET existing == data.nodes[existing_node_id]
             IN  [data |-> SetNode(data, existing_node_id,
                              [existing EXCEPT
                                  !.source_qa = Append(@, qa_id),
                                  !.confidence = IF RGt(node.confidence, @)
                                                 THEN node.confidence ELSE @]),
                  node_map |-> put(existing_node_id), labels |-> labels]
        ELSE LET r == add_node(data, node.label, node.confidence, <<qa_id>>,
                               _is_stance_belief(node.label))
             IN  [data |-> r.data, node_map |-> put(r.node_id), labels |-> labels]

RECURSIVE ServiceNodes(_, _, _)
ServiceNodes(st, extracted_nodes, qa_id) ==
    IF extracted_nodes = <<>> THEN st
    ELSE ServiceNodes(ServiceNode(st, Head(extracted_nodes), qa_id),
                      Tail(extracted_nodes), qa_id)

\* services/cbn_service.py 211-238: one extracted relation
ServiceRelation(data, node_map, relation, qa_id) ==
    LET lookup(label) == IF label \in DOMAIN node_map THEN node_map[label]
                         ELSE get_node_by_label(data, label)
        source_id == lookup(relation.source_label)
        target_id == lookup(relation.target_label)
    IN  IF relation.source_label = <<>> \/ relation.target_label = <<>> THEN data
        ELSE IF source_id = None \/ target_id = None THEN data
        ELSE LET existing_edge_id == get_edge_by_nodes(data, source_id, target_id)
             IN  IF existing_edge_id # None
                 THEN update_edge(data, existing_edge_id, qa_id, relation.confidence)
                 ELSE add_service_edge(data, source_id, target_id, relation.confidence,
                                       relation.modifier, qa_id)

RECURSIVE ServiceRelations(_, _, _, _)
ServiceRelations(data, node_map, relations, qa_id) ==
    IF relations = <<>> THEN data
    ELSE ServiceRelations(ServiceRelation(data, node_map, Head(relations), qa_id),
                          node_map, Tail(relations), qa_id)

\* CBNService.update_cbn_with_qa; extracted_data is what
\* llm_service.extract_causal_data returns, its nodes in dict order
service_update_cbn_with_qa(data, extracted_data) ==
    IF extracted_data.nodes = <<>> THEN data
    ELSE LET extracted_pairs ==
                 [i \in 1..Len(extracted_data.relations) |->
                     [source |-> extracted_data.relations[i].source_label,
                      target |-> extracted_data.relations[i].target_label,
                      confidence |-> extracted_data.relations[i].confidence]]
             qa == add_qa(data, extracted_pairs)
             has_stance_belief ==
                 \E i \in 1..Len(extracted_data.nodes) :
                     _is_stance_belief(extracted_data.nodes[i].label)
             st == ServiceNodes([data |-> qa.data, node_map |-> [k \in {} |-> None],
                                 labels |-> <<>>],
                                extracted_data.nodes, qa.qa_id)
         IN  IF extracted_data.relations = <<>> THEN st.data
             ELSE LET d1 == ServiceRelations(st.data, st.node_map,
                                             extracted_data.relations, qa.qa_id)
                      stance_node_id == get_stance_node_id(d1)
                  IN  IF ~has_stance_belief /\ stance_node_id # None
                      THEN _connect_to_stance_node(d1, stance_node_id, st.labels,
                                                   st.node_map, qa.qa_id)
                      ELSE d1

\* CBNService._sanitize_topic
_sanitize_topic(topic) ==
    IF topic = <<>> THEN PolicyTopic
    ELSE IF lower(topic) = NoneWord \/ (\A i \in 1..Len(topic) : topic[i] \in SpaceChars)
         THEN PolicyTopic
         ELSE topic

\* services/cbn_service.py 350-387: the label of one stance node
FixedLabel(label, topic) ==
    IF \A i \in 1..Len(label) : label[i] \in SpaceChars THEN SupportFor \o topic
    ELSE IF HasSubstring(lower(label), NoneWord) THEN SupportFor \o topic
    ELSE IF ~startswith(lower(label), support_for) THEN SupportFor \o label
    ELSE label

\* CBNService._fix_stance_node_labels
_fix_stance_node_labels(data, topic) ==
    LET fixed == [data EXCEPT !.nodes =
                     [k \in DOMAIN data.nodes |->
                         IF data.nodes[k].is_stance
                         THEN [data.nodes[k] EXCEPT !.label = FixedLabel(@, topic)]
                         ELSE data.nodes[k]]]
    IN  _ensure_stance_node(fixed, SupportFor \o topic)

\* CBNService.get_cbn for a key the store does not hold: the CBN stored
get_cbn(topic, existing_causal_graph) ==
    LET sanitized_topic == _sanitize_topic(topic)
    IN  IF existing_causal_graph # <<>>
        THEN _fix_stance_node_labels(CausalBayesianNetwork(existing_causal_graph),
                                     sanitized_topic)
        ELSE LET data == CausalBayesianNetwork(<<>>)
                 stance_node_id == get_stance_node_id(data)
             IN  SetNode(data, stance_node_id,
                    [data.nodes[stance_node_id] EXCEPT !.label = SupportFor \o sanitized_topic])

\* what the oracles of the service layer may return
LabelCost == <<"c", "o", "s", "t">>
LabelHarm == <<"h", "a", "r", "m">>
LabelPro  == <<"p", "r", "o", " ", "x">>
LabelSupportX == SupportFor \o <<"x">>

ServiceCand(label) == [label |-> label, confidence |-> R(9, 10)]

ExtractedNodes ==
    {<<>>, <<ServiceCand(LabelCost)>>, <<ServiceCand(LabelHarm), ServiceCand(LabelCost)>>,
     <<ServiceCand(LabelPro)>>, <<ServiceCand(LabelSupportX), ServiceCand(LabelHarm)>>}

Relation(source_label, target_label) ==
    [source_label |-> source_label, target_label |-> target_label,
     confidence |-> R(9, 10), modifier |-> RInt(1)]

ExtractedRelations ==
    {<<>>, <<Relation(LabelHarm, LabelCost)>>, <<Relation(LabelCost, <<>>)>>}

ExtractedData ==
    {[nodes |-> n, relations |-> r] : n \in ExtractedNodes, r \in ExtractedRelations}

\* the defaultTopic of the settings
Topics == {<<"x">>, NoneWord}

\* existing causal graphs with zero, one and two stance nodes
ExistingStance(label, incoming_edges) ==
    [NewServiceNode(label, RInt(1), <<>>, TRUE) EXCEPT !.incoming_edges = incoming_edges]

ExistingZero == default_structure

ExistingOne ==
    [default_structure EXCEPT
        !.nodes = [k \in {"a"} |-> ExistingStance(NoneWord, <<>>)],
        !.node_ids = <<"a">>]

ExistingTwo ==
    [default_structure EXCEPT
        !.nodes = [k \in {"a", "b", "c"} |->
                      IF k = "a" THEN ExistingStance(NoneWord, <<"e">>)
                      ELSE IF k = "b" THEN ExistingStance(LabelSupportX, <<>>)
                      ELSE [NewServiceNode(LabelCost, R(9, 10), <<>>, FALSE)
                               EXCEPT !.outgoing_edges = <<"e">>]],
        !.node_ids = <<"a", "b", "c">>,
        !.edges = [k \in {"e"} |->
                      [source |-> "c", target |-> "a", aggregate_confidence |-> R(9, 10),
                       evidence |-> <<>>, modifier |-> RInt(1)]],
        !.edge_ids = <<"e">>]

\* two stance nodes, the lower-scored of which has an edge to a factor
ExistingLinked ==
    [default_structure EXCEPT
        !.nodes = [k \in {"a", "b", "c"} |->
                      IF k = "a"
                      THEN [ExistingStance(NoneWord, <<>>) EXCEPT !.outgoing_edges = <<"e">>]
                      ELSE IF k = "b" THEN ExistingStance(LabelSupportX, <<>>)
                      ELSE [NewServiceNode(LabelCost, R(9, 10), <<>>, FALSE)
                               EXCEPT !.incoming_edges = <<"e">>]],
        !.node_ids = <<"a", "b", "c">>,
        !.edges = [k \in {"e"} |->
                      [source |-> "a", target |-> "c", aggregate_confidence |-> R(9, 10),
                       evidence |-> <<>>, modifier |-> RInt(1)]],
        !.edge_ids = <<"e">>]

ExistingModels == {ExistingZero, ExistingOne, ExistingTwo, ExistingLinked}

ServiceKeys == {"s1_a"}

\* CBNService.get_cbn (services/cbn_service.py 67-121) for a key of the store
GetStoredCbn(cbn_key, topic) ==
    /\ cbn_key \in DOMAIN cbn_store
    /\ cbn_store' = [cbn_store EXCEPT
                        ![cbn_key] = _fix_stance_node_labels(@, _sanitize_topic(topic))]
    /\ last_op' = Op("get_cbn", cbn_key, cbn_store[cbn_key], None, None)
    /\ UNCHANGED <<mgr, rq>>

\* CBNService.get_cbn for a new key: from the causal graph of the request, or
\* a new CBN
CreateCbn(cbn_key, topic, existing_causal_graph) ==
    /\ cbn_key \notin DOMAIN cbn_store
    /\ cbn_store' = [k \in (DOMAIN cbn_store) \cup {cbn_key} |->
                        IF k = cbn_key THEN get_cbn(topic, existing_causal_graph)
                        ELSE cbn_store[k]]
    /\ last_op' = Op("CausalBayesianNetwork", cbn_key, default_structure,
                     existing_causal_graph, None)
    /\ UNCHANGED <<mgr, rq>>

\* CBNService.update_cbn_with_qa on the CBN of a key
ServiceUpdate(cbn_key, extracted_data) ==
    /\ cbn_key \in DOMAIN cbn_store
    /\ Len(cbn_store[cbn_key].qa_history) < MaxServiceQa
    /\ cbn_store' = [cbn_store EXCEPT
                        ![cbn_key] = service_update_cbn_with_qa(@, extracted_data)]
    /\ last_op' = Op("update_cbn_with_qa", cbn_key, cbn_store[cbn_key],
                     extracted_data, None)
    /\ UNCHANGED <<mgr, rq>>

NextService ==
    \/ \E cbn_key \in ServiceKeys, topic \in Topics : GetStoredCbn(cbn_key, topic)
    \/ \E cbn_key \in ServiceKeys, topic \in Topics :
          CreateCbn(cbn_key, topic, <<>>)
    \/ \E cbn_key \in ServiceKeys, topic \in Topics, existing \in ExistingModels :
          CreateCbn(cbn_key, topic, <<existing>>)
    \/ \E cbn_key \in ServiceKeys, extracted_data \in ExtractedData :
          ServiceUpdate(cbn_key, extracted_data)

SpecService == InitFor({}) /\ [][NextService]_vars

(***************************************************************************)
(* _determine_merge_direction applied to pairs of nodes                    *)
(***************************************************************************)
\* the fields of a node that _determine_merge_direction reads
DirectionNodes ==
    {[is_stance |-> st, status |-> status, frequency |-> frequency,
      importance |-> importance, aggregate_confidence |-> confidence] :
        st \in BOOLEAN, status \in {"anchor", "candidate"},
        frequency \in 1..MaxFrequency,
        importance \in {R(1, 2), R(9, 10)}, confidence \in {R(1, 2), R(9, 10)}}

\* _determine_merge_direction("n1", "n2", node1, node2)
DetermineMergeDirection(node1, node2) ==
    /\ last_op' = Op("_determine_merge_direction", None, NewCbn, <<node1, node2>>,
                     _determine_merge_direction("n1", "n2", node1, node2))
    /\ UNCHANGED <<cbn_store, mgr, rq>>

NextDirection ==
    \E node1, node2 \in DirectionNodes : DetermineMergeDirection(node1, node2)

SpecDirection == InitFor({}) /\ [][NextDirection]_vars

(***************************************************************************)
(* Properties                                                              *)
(***************************************************************************)
Graphs == {cbn_store[s] : s \in DOMAIN cbn_store}

\* the CBN of the session the last step worked on
Current == cbn_store[last_op.session]

EdgesInto(cbn, node_id) == {e \in DOMAIN cbn.edges : cbn.edges[e].target = node_id}
EdgesFrom(cbn, node_id) == {e \in DOMAIN cbn.edges : cbn.edges[e].source = node_id}

NoDanglingEdges(cbn) ==
    \A e \in DOMAIN cbn.edges :
        cbn.edges[e].source \in DOMAIN cbn.nodes /\ cbn.edges[e].target \in DOMAIN cbn.nodes

EdgeListsExact(cbn) ==
    \A k \in DOMAIN cbn.nodes :
        /\ NoDuplicates(cbn.nodes[k].incoming_edges)
        /\ NoDuplicates(cbn.nodes[k].outgoing_edges)
        /\ Range(cbn.nodes[k].incoming_edges) = EdgesInto(cbn, k)
        /\ Range(cbn.nodes[k].outgoing_edges) = EdgesFrom(cbn, k)

\* C1: in every graph, after every step of a QA-pair update, the source and the
\* target of every edge are ids of nodes currently in the graph.
C1_NoDanglingEdges == \A cbn \in Graphs : NoDanglingEdges(cbn)

\* C2: in every graph, every node's incoming_edges is exactly the set of edge ids
\* whose target is the node and its outgoing_edges exactly those whose source is
\* the node, without duplicates.
C2_EdgeListsExact == \A cbn \in Graphs : EdgeListsExact(cbn)

\* C3: when add_edge has returned an edge id, the id is in the outgoing_edges of
\* the edge's source node and in the incoming_edges of its target node.
C3_AddEdgeUpdatesEndpoints ==
    (last_op.name = "add_edge" /\ last_op.source # None) =>
        LET edge == Current.edges[last_op.source]
        IN  /\ Contains(Current.nodes[edge.source].outgoing_edges, last_op.source)
            /\ Contains(Current.nodes[edge.target].incoming_edges, last_op.source)

Anchors(cbn) == {k \in DOMAIN cbn.nodes : cbn.nodes[k].status = "anchor"}

\* C4: in every graph, after every step of a QA-pair update, anchor_queue holds
\* exactly the ids of the nodes whose status is anchor, each once.
C4_AnchorQueueExact ==
    \A cbn \in Graphs :
        NoDuplicates(cbn.anchor_queue) /\ Range(cbn.anchor_queue) = Anchors(cbn)

\* a node merge has run in a graph that holds a promoted anchor besides the stance
\* node, and a candidate node that stays out of the queue
C4_Witness ==
    /\ last_op.name = "_merge_nodes"
    /\ Len(Current.anchor_queue) >= 2
    /\ \E k \in DOMAIN Current.nodes : Current.nodes[k].status = "candidate"

\* a candidate node that meets a promotion criterion of lines 1215
Promotable(node) ==
    /\ node.status = "candidate"
    /\ \/ node.frequency >= 2
       \/ RGt(node.importance, R(85, 100)) /\ RGt(node.aggregate_confidence, R(85, 100))
       \/ Len(node.incoming_edges) + Len(node.outgoing_edges) > 0

\* C5: in every graph, after every step of a QA-pair update, anchor_queue holds at
\* most max_anchors (25) ids.
C5_AnchorCap == \A cbn \in Graphs : Len(cbn.anchor_queue) <= max_anchors

\* the promotion scan has filled the queue to max_anchors and left a node that
\* meets a promotion criterion as a candidate
C5_Witness ==
    /\ last_op.name = "_check_node_promotion"
    /\ Len(last_op.before.anchor_queue) < max_anchors
    /\ Len(Current.anchor_queue) = max_anchors
    /\ \E k \in DOMAIN Current.nodes : Promotable(Current.nodes[k])

\* C6: no step changes the status of a node that stays in its graph from anchor
\* to anything else.
C6_AnchorStaysAnchor ==
    [][\A s \in (DOMAIN cbn_store) \cap (DOMAIN cbn_store') :
          \A k \in (DOMAIN cbn_store[s].nodes) \cap (DOMAIN cbn_store'[s].nodes) :
              cbn_store[s].nodes[k].status = "anchor"
                  => cbn_store'[s].nodes[k].status = "anchor"]_vars

\* the ingestion of a later QA pair has found, and updated, a node other than the
\* stance node that was an anchor already
C6_Witness ==
    /\ last_op.name = "ingest"
    /\ \E k \in DOMAIN last_op.before.nodes :
          /\ last_op.before.nodes[k].status = "anchor"
          /\ ~last_op.before.nodes[k].is_stance
          /\ Current.nodes[k].frequency > last_op.before.nodes[k].frequency

StanceIn(cbn, pair) == \E i \in 1..2 : pair[i] \in DOMAIN cbn.nodes /\ cbn.nodes[pair[i]].is_stance

\* C7: the stance node is the source of no merge candidate and of no merge, and
\* in every graph the node named by stance_node_id exists with is_stance true.
C7_StanceIsTarget ==
    /\ \A s \in DOMAIN cbn_store :
          /\ cbn_store[s].stance_node_id \in DOMAIN cbn_store[s].nodes
          /\ cbn_store[s].nodes[cbn_store[s].stance_node_id].is_stance
          /\ \A i \in 1..Len(rq[s].merge_candidates) :
                rq[s].merge_candidates[i][1] # cbn_store[s].stance_node_id
    /\ (last_op.name = "_merge_nodes"
            /\ StanceIn(last_op.before, <<last_op.source, last_op.target>>))
        => last_op.before.nodes[last_op.target].is_stance

\* a node with a higher frequency than the stance node has been merged into it
C7_Witness ==
    /\ last_op.name = "_merge_nodes"
    /\ last_op.before.nodes[last_op.target].is_stance
    /\ last_op.before.nodes[last_op.source].frequency
          > last_op.before.nodes[last_op.target].frequency
    /\ last_op.source \notin DOMAIN Current.nodes

QaIds(evidence) == {evidence[i].qa_id : i \in 1..Len(evidence)}

\* C8: after _merge_nodes(source, target) the target's evidence has one entry per
\* qa_id of either node's prior evidence and no other: the target's prior entries,
\* followed by the source's entries for the qa_ids the target lacked.
C8_MergeEvidenceUnion ==
    last_op.name = "_merge_nodes" =>
        LET evidence == Current.nodes[last_op.target].evidence
            target_evidence == last_op.before.nodes[last_op.target].evidence
            source_evidence == last_op.before.nodes[last_op.source].evidence
        IN  /\ QaIds(evidence) = QaIds(target_evidence) \cup QaIds(source_evidence)
            /\ \A i, j \in 1..Len(evidence) : evidence[i].qa_id = evidence[j].qa_id => i = j
            /\ Len(evidence) >= Len(target_evidence)
            /\ SubSeq(evidence, 1, Len(target_evidence)) = target_evidence
            /\ \A i \in (Len(target_evidence) + 1)..Len(evidence) :
                  evidence[i] \in Range(source_evidence)

\* a merge of two nodes that held different entries under the same qa_id
C8_Witness ==
    /\ last_op.name = "_merge_nodes"
    /\ \E e1 \in Range(last_op.before.nodes[last_op.source].evidence) :
       \E e2 \in Range(last_op.before.nodes[last_op.target].evidence) :
          e1.qa_id = e2.qa_id /\ e1 # e2

EdgesBetween(cbn, from_id, to_id) ==
    {e \in DOMAIN cbn.edges : cbn.edges[e].source = from_id /\ cbn.edges[e].target = to_id}

\* the edge id is in the edge lists of both endpoints of the edge
Listed(cbn, e) ==
    /\ cbn.edges[e].source \in DOMAIN cbn.nodes
    /\ cbn.edges[e].target \in DOMAIN cbn.nodes
    /\ Contains(cbn.nodes[cbn.edges[e].source].outgoing_edges, e)
    /\ Contains(cbn.nodes[cbn.edges[e].target].incoming_edges, e)

\* the merge of X into Y left one edge Y -> Z, whose evidence has one entry per
\* qa_id of the evidence of the prior edges X -> Z and Y -> Z
EdgeDedup(before, after, X, Y, Z) ==
    LET prior  == EdgesBetween(before, X, Z) \cup EdgesBetween(before, Y, Z)
        merged == EdgesBetween(after, Y, Z)
    IN  /\ Cardinality(merged) = 1
        /\ \A e \in merged :
              /\ QaIds(after.edges[e].evidence) =
                    UNION {QaIds(before.edges[p].evidence) : p \in prior}
              /\ \A i, j \in 1..Len(after.edges[e].evidence) :
                    after.edges[e].evidence[i].qa_id = after.edges[e].evidence[j].qa_id
                        => i = j

\* X and Y each had one edge to Z
CommonTarget(before, X, Y, Z) ==
    /\ Z \in (DOMAIN before.nodes) \ {X, Y}
    /\ Cardinality(EdgesBetween(before, X, Z)) = 1
    /\ Cardinality(EdgesBetween(before, Y, Z)) = 1

\* C9: after node X is merged into node Y, where X and Y each had one edge to a
\* common third node Z, the graph has exactly one edge from Y to Z and its
\* evidence has one entry per qa_id of the two prior edges' evidence.
C9_EdgeDedupAfterMerge ==
    last_op.name = "_merge_nodes" =>
        \A Z \in DOMAIN last_op.before.nodes :
            CommonTarget(last_op.before, last_op.source, last_op.target, Z)
                => EdgeDedup(last_op.before, Current, last_op.source, last_op.target, Z)

\* the statement of C9 for prior edges that are in their endpoints' edge lists
\* (edges that add_edge registered with an explanation): it holds
C9_ListedEdgesDedup ==
    last_op.name = "_merge_nodes" =>
        \A Z \in DOMAIN last_op.before.nodes :
            (/\ CommonTarget(last_op.before, last_op.source, last_op.target, Z)
             /\ \A e \in EdgesBetween(last_op.before, last_op.source, Z)
                        \cup EdgesBetween(last_op.before, last_op.target, Z) :
                   Listed(last_op.before, e))
                => EdgeDedup(last_op.before, Current, last_op.source, last_op.target, Z)

\* a merge of X into Y that both had one edge to a common node
C9_Scenario ==
    /\ last_op.name = "_merge_nodes"
    /\ \E Z \in DOMAIN last_op.before.nodes :
          CommonTarget(last_op.before, last_op.source, last_op.target, Z)

SameAggregates(x, y, third) ==
    /\ Len(x.evidence) = Len(y.evidence)
    /\ x.aggregate_confidence = y.aggregate_confidence
    /\ x[third] = y[third]

\* the node ingestion of the request in flight, replayed candidate by candidate:
\* the graph before the i-th candidate is ingested
IngestedUpTo(i) ==
    IngestNodes([last_op.before EXCEPT !.qa_counter = @ + 1],
                SubSeq(rq[last_op.session].new_nodes, 1, i - 1), rq[last_op.session].qa_id)

\* the i-th candidate names a node whose evidence already holds the request's qa_id
RepeatedNode(i) ==
    LET cbn == IngestedUpTo(i)
        existing_node_id == FindExistingNode(cbn, rq[last_op.session].new_nodes[i].label)
    IN  /\ existing_node_id # None
        /\ qa_exists(cbn.nodes[existing_node_id].evidence, rq[last_op.session].qa_id)

\* the edge handed to add_qa_to_graph already holds the request's qa_id
RepeatedEdge ==
    /\ last_op.name = "add_qa_to_graph"
    /\ last_op.source \in DOMAIN last_op.before.edges
    /\ qa_exists(last_op.before.edges[last_op.source].evidence, rq[last_op.session].qa_id)

\* C10: ingesting a node candidate under a qa_id that the node's evidence already
\* holds leaves the node's evidence length, aggregate_confidence and importance
\* unchanged; recording a QA for an edge whose evidence already holds its qa_id
\* leaves the edge's evidence length, aggregate_confidence and modifier unchanged.
C10_IdempotentIngestion ==
    /\ last_op.name = "ingest" =>
          LET new_nodes == rq[last_op.session].new_nodes
              qa_id == rq[last_op.session].qa_id
          IN  /\ Current = IngestedUpTo(Len(new_nodes) + 1)
              /\ \A i \in 1..Len(new_nodes) :
                    RepeatedNode(i) =>
                        LET cbn == IngestedUpTo(i)
                            k == FindExistingNode(cbn, new_nodes[i].label)
                        IN  SameAggregates(IngestNode(cbn, new_nodes[i], qa_id).nodes[k],
                                           cbn.nodes[k], "importance")
    /\ RepeatedEdge =>
          SameAggregates(Current.edges[last_op.source],
                         last_op.before.edges[last_op.source], "modifier")

\* a QA pair has named the same node twice, the second time with other scores
C10_Witness ==
    /\ last_op.name = "ingest"
    /\ \E i \in 1..Len(rq[last_op.session].new_nodes) :
          /\ RepeatedNode(i)
          /\ \E e \in Range(IngestedUpTo(i).nodes[FindExistingNode(IngestedUpTo(i),
                            rq[last_op.session].new_nodes[i].label)].evidence) :
                /\ e.qa_id = rq[last_op.session].qa_id
                /\ e.confidence # rq[last_op.session].new_nodes[i].aggregate_confidence

\* a QA pair has been recorded for an edge that add_edge created with its qa_id
C10_EdgeCase == RepeatedEdge /\ Len(Current.edges[last_op.source].evidence) = 1

C11_Transition ==
    /\ last_op.name = "get_next_step"
    /\ Len(last_op.before.anchor_queue) = 5
    /\ mgr.current_step = 2
    /\ cbn_store[last_op.session].qa_counter = 4

\* C12: once the QA-pair update during which a graph's anchor_queue grew to 5
\* entries has been answered, and after every later update, the step field of the
\* graph returned to the caller is relationship_qualification.
C12_SnapshotStepFollowsPhase ==
    \A s \in DOMAIN cbn_store :
        (rq[s].pc = "idle" /\ Len(cbn_store[s].anchor_queue) >= 5)
            => cbn_store[s].step = "relationship_qualification"

\* the update during which the anchor_queue grew from 4 to 5 entries has been
\* answered: the engine is in step 2
C12_Scenario ==
    /\ last_op.name = "generate_follow_up_questions"
    /\ rq[last_op.session].pc = "idle"
    /\ Len(Current.anchor_queue) = 5
    /\ Current.qa_counter = 4
    /\ rq[last_op.session].next_step = 2

QaCount(cbn) == Cardinality(DOMAIN cbn.qa_history)
Candidates(cbn) == {k \in DOMAIN cbn.nodes : cbn.nodes[k].status = "candidate"}

\* C13: check_termination evaluated on a graph whose qa_history holds at least
\* max_qa_count records returns true and sets the terminated flag.
C13_HardCap ==
    (last_op.name = "check_termination" /\ QaCount(last_op.before) >= max_qa_count)
        => last_op.target = TRUE /\ mgr.terminate_interview

\* the cap has ended an interview that was not terminated, on a graph that holds
\* a candidate node
C13_Witness ==
    /\ last_op.name = "check_termination"
    /\ QaCount(last_op.before) >= max_qa_count
    /\ ~last_op.source.terminate_interview
    /\ Candidates(last_op.before) # {}
    /\ last_op.target = TRUE

C15_TerminationSticky ==
    [][mgr.terminate_interview
          => /\ mgr'.terminate_interview
             /\ last_op'.name = "check_termination" => last_op'.target = TRUE]_vars

\* check_termination has returned true again on a graph with fewer than
\* max_qa_count QA records that has since got a candidate node
C15_Witness ==
    /\ last_op.name = "check_termination"
    /\ last_op.source.terminate_interview
    /\ QaCount(last_op.before) < max_qa_count
    /\ Candidates(last_op.before) # {}
    /\ last_op.target = TRUE

\* check_termination has returned true again on a graph with fewer than
\* max_qa_count QA records in which an anchor has fewer than 3 edges
C15_UnexpandedAnchor ==
    /\ last_op.name = "check_termination"
    /\ last_op.source.terminate_interview
    /\ QaCount(last_op.before) < max_qa_count
    /\ \E k \in Range(last_op.before.anchor_queue) :
          EdgeCount(last_op.before.nodes[k]) < 3
    /\ last_op.target = TRUE

\* C16: when a QA-pair update has run its last step, it has evaluated
\* check_termination on the updated graph.
C16_TerminationCheckedEachUpdate ==
    \A s \in DOMAIN rq : rq[s].pc = "next_step" => rq[s].checked

\* a QA-pair update has ingested nodes, added an edge, merged, promoted and
\* recorded the QA pair
C16_Scenario ==
    /\ last_op.name = "_check_node_promotion"
    /\ rq[last_op.session].pc = "next_step"
    /\ rq[last_op.session].edge_id # None
    /\ rq[last_op.session].qa_id \in DOMAIN Current.qa_history

\* C17: the step get_next_step returns for a session's update, and the terminated
\* flag, are those an engine serving that session alone would produce for the
\* same updates.
C17_SessionIsolation ==
    \A s \in DOMAIN rq :
        rq[s].pc = "questions"
            => /\ rq[s].next_step = rq[s].alone.current_step
               /\ mgr.terminate_interview = rq[s].alone.terminate_interview

\* a session whose graph has fewer than 5 anchors is answered after another
\* session's graph has reached 5
C17_Scenario ==
    /\ last_op.name = "get_next_step"
    /\ Len(Current.anchor_queue) < 5
    /\ \E s \in DOMAIN cbn_store :
          /\ s # last_op.session
          /\ Len(cbn_store[s].anchor_queue) >= 5
          /\ rq[s].next_step = 2

\* C18: the anchor list handed to the question generator for a request is the
\* anchor_queue of the graph of that request's session.
C18_OwnAnchorQueue ==
    \A s \in DOMAIN rq :
        (last_op.name = "generate_follow_up_questions" /\ last_op.session = s)
            => rq[s].question_anchors = cbn_store[s].anchor_queue

\* questions have been generated for a request while a request of another
\* session was between its first and its last step
C18_Scenario ==
    /\ last_op.name = "generate_follow_up_questions"
    /\ \E s \in DOMAIN rq : s # last_op.session /\ rq[s].pc \notin {"idle", "edge"}

\* the pairs of distinct nodes with non-empty labels whose label similarity is at
\* least the threshold
SimilarPairs(cbn) ==
    {pair \in (DOMAIN cbn.nodes) \X (DOMAIN cbn.nodes) :
        /\ pair[1] # pair[2]
        /\ cbn.nodes[pair[1]].label # <<>> /\ cbn.nodes[pair[2]].label # <<>>
        /\ RGe(node_similarity(cbn.nodes[pair[1]].label, cbn.nodes[pair[2]].label),
               similarity_threshold)}

\* merge_graph_components has just returned for session s
MergeReturned(s) ==
    last_op.name = "_check_node_promotion" /\ last_op.session = s /\ rq[s].pc = "record"

\* C19: when merge_graph_components has returned, the graph holds no two nodes
\* with non-empty labels whose Jaccard label similarity is 0.7 or more, and
\* _find_mergeable_nodes finds no candidate in it.
C19_MergeFixpoint ==
    \A s \in DOMAIN cbn_store :
        MergeReturned(s) => /\ SimilarPairs(cbn_store[s]) = {}
                            /\ _find_mergeable_nodes(cbn_store[s]) = <<>>

\* merge_graph_components has returned from a pass over three nodes similar to
\* each other: it merged two of the three candidate pairs and skipped the third,
\* one node of which was gone
C19_Witness ==
    /\ MergeReturned(last_op.session)
    /\ Current.qa_counter = 2
    /\ Current.node_counter = 5
    /\ Cardinality(DOMAIN Current.nodes) = 3
    /\ FindExistingNode(Current, LabelB) # None
    /\ rq[last_op.session].new_nodes[2].label = LabelA4

\* the labels of the nodes of a graph, ignoring case
LowerLabels(cbn) == {lower(cbn.nodes[k].label) : k \in DOMAIN cbn.nodes}

\* add_edge has been called for session s with a from_label or a to_label that
\* no node of the graph carries
UnmatchedAddEdge(s) ==
    /\ last_op.name = "add_edge" /\ last_op.session = s
    /\ rq[s].edge # NoEdge /\ Len(rq[s].new_nodes) >= 2
    /\ \/ lower(rq[s].edge.from_label) \notin LowerLabels(last_op.before)
       \/ lower(rq[s].edge.to_label) \notin LowerLabels(last_op.before)

\* C20: add_edge called with a from_label or a to_label that matches no node
\* label, ignoring case, returns no edge id and leaves the graph (node table, edge
\* lists, edge table, edge_counter) as it was.
C20_UnmatchedLabelNoEdge ==
    \A s \in DOMAIN cbn_store :
        UnmatchedAddEdge(s) =>
            /\ last_op.source = None
            /\ rq[s].edge_id = None
            /\ cbn_store[s].nodes = last_op.before.nodes
            /\ cbn_store[s].edges = last_op.before.edges
            /\ cbn_store[s].edge_counter = last_op.before.edge_counter
            /\ cbn_store[s] = last_op.before

\* add_edge has been called with an unmatched to_label on a graph that already
\* holds an edge
C20_Witness ==
    /\ UnmatchedAddEdge(last_op.session)
    /\ rq[last_op.session].edge.to_label = LabelU
    /\ last_op.before.edge_counter >= 1

EdgesAt(cbn, node_id) == EdgesInto(cbn, node_id) \cup EdgesFrom(cbn, node_id)
StaleEdgeLists(cbn) ==
    {k \in DOMAIN cbn.nodes :
        ~(Range(cbn.nodes[k].incoming_edges) \cup Range(cbn.nodes[k].outgoing_edges)
              \subseteq DOMAIN cbn.edges)}

\* C22: no removal succeeds while a reference to the removed object is left: when
\* a merge step has completed and deleted its source node, no edge of the graph
\* has that node as source or target and no edge list holds a deleted edge.
C22_NoSilentDanglingRemoval ==
    (last_op.name = "_merge_nodes" /\ last_op.source \notin DOMAIN Current.nodes)
        => /\ EdgesAt(Current, last_op.source) = {}
           /\ StaleEdgeLists(Current) = {}

\* a merge step has deleted a node that an edge of the graph had as an endpoint
C22_Scenario ==
    /\ last_op.name = "_merge_nodes"
    /\ last_op.source \notin DOMAIN Current.nodes
    /\ EdgesAt(last_op.before, last_op.source) # {}

\* an aggregation function has been applied to the empty evidence list
AppliedToEmpty(name) == last_op.name = name /\ last_op.source = <<>>

\* C23: on an empty evidence list the aggregate confidence is 0.5, for edge
\* evidence and for node evidence, the aggregate importance is 0.5 and the
\* aggregate modifier is 0.
C23_EmptyEvidenceDefaults ==
    /\ AppliedToEmpty("_calculate_aggregate_confidence") => last_op.target = R(1, 2)
    /\ AppliedToEmpty("_calculate_node_aggregate_confidence") => last_op.target = R(1, 2)
    /\ AppliedToEmpty("_calculate_node_importance") => last_op.target = R(1, 2)
    /\ AppliedToEmpty("_calculate_aggregate_modifier") => last_op.target = RInt(0)

\* the statement of C23 for the three functions other than the edge confidence
C23_OtherDefaults ==
    /\ AppliedToEmpty("_calculate_node_aggregate_confidence") => last_op.target = R(1, 2)
    /\ AppliedToEmpty("_calculate_node_importance") => last_op.target = R(1, 2)
    /\ AppliedToEmpty("_calculate_aggregate_modifier") => last_op.target = RInt(0)

\* the edge confidence has been computed for an empty evidence list
C23_Scenario == AppliedToEmpty("_calculate_aggregate_confidence")

\* the distinct qa_ids among a node's evidence entries
EvidenceQaIds(node) == {node.evidence[i].qa_id : i \in DOMAIN node.evidence}

\* C24: every node's frequency equals the number of distinct qa_ids in its
\* evidence list.
C24_FrequencyCountsQaIds ==
    \A cbn \in Graphs : \A k \in DOMAIN cbn.nodes :
        cbn.nodes[k].frequency = Cardinality(EvidenceQaIds(cbn.nodes[k]))

\* one update has named the same new node twice: its frequency is 2 while
\* its evidence holds the single current qa_id
C24_Scenario ==
    /\ last_op.name = "ingest"
    /\ \E k \in DOMAIN Current.nodes \ DOMAIN last_op.before.nodes :
          /\ Current.nodes[k].frequency = 2
          /\ EvidenceQaIds(Current.nodes[k]) = {rq[last_op.session].qa_id}

\* x lies in [-1, 1]
InUnitBall(x) == RLe(RInt(-1), x) /\ RLe(x, RInt(1))

\* C25: every edge's modifier and every edge evidence entry's
\* original_modifier lie in [-1, 1].
C25_ModifiersBounded ==
    \A cbn \in Graphs : \A e \in DOMAIN cbn.edges :
        /\ InUnitBall(cbn.edges[e].modifier)
        /\ \A i \in DOMAIN cbn.edges[e].evidence :
              InUnitBall(cbn.edges[e].evidence[i].original_modifier)

\* add_qa_to_graph has appended an evidence entry for the current QA to an
\* edge whose first entry carries another qa_id
C25_Scenario ==
    /\ last_op.name = "add_qa_to_graph"
    /\ \E e \in DOMAIN Current.edges :
          /\ e \in DOMAIN last_op.before.edges
          /\ Len(last_op.before.edges[e].evidence) = 1
          /\ Len(Current.edges[e].evidence) = 2
          /\ Current.edges[e].evidence[2].qa_id = rq[last_op.session].qa_id

\* the nodes of cbn whose label equals `label` ignoring case
NodesLabelled(cbn, label) ==
    {k \in DOMAIN cbn.nodes : lower(cbn.nodes[k].label) = lower(label)}

\* the evidence entries of a node that carry qa_id
EntriesFor(node, qa_id) == {i \in DOMAIN node.evidence : node.evidence[i].qa_id = qa_id}

\* the candidates of the update of session s
CandidateLabels(s) == {rq[s].new_nodes[i].label : i \in 1..Len(rq[s].new_nodes)}

\* C26: a candidate whose label equals an existing node's label ignoring case
\* adds one evidence entry for the current qa_id to that node and creates no
\* node; no two nodes of a graph have labels that are equal ignoring case.
C26_CaseInsensitiveIngestion ==
    /\ \A cbn \in Graphs : \A k1, k2 \in DOMAIN cbn.nodes :
          lower(cbn.nodes[k1].label) = lower(cbn.nodes[k2].label) => k1 = k2
    /\ last_op.name = "ingest" =>
          \A label \in CandidateLabels(last_op.session) :
             \A k \in NodesLabelled(last_op.before, label) :
                /\ NodesLabelled(Current, label) = {k}
                /\ Len(Current.nodes[k].evidence) = Len(last_op.before.nodes[k].evidence) + 1
                /\ Cardinality(EntriesFor(Current.nodes[k], rq[last_op.session].qa_id)) = 1

\* an update has named, in another case, a node that an earlier update created
C26_Witness ==
    /\ last_op.name = "ingest"
    /\ LabelA3 \in CandidateLabels(last_op.session)
    /\ \E k \in DOMAIN last_op.before.nodes :
          /\ last_op.before.nodes[k].label = LabelA
          /\ Len(Current.nodes[k].evidence) = 2

\* the stance nodes of a service-layer CBN
StanceCount(data) == Cardinality({k \in DOMAIN data.nodes : data.nodes[k].is_stance})

\* C27: every CausalBayesianNetwork of the service layer has exactly one node
\* with is_stance = true, after construction and after every update.
C27_ExactlyOneStanceNode ==
    \A data \in Graphs : StanceCount(data) = 1

\* the statement of C27 for the CBNs that get_cbn hands out
C27_OneStanceAfterGetCbn ==
    last_op.name \in {"get_cbn", "CausalBayesianNetwork"} => StanceCount(Current) = 1

\* an update has extracted a node whose label holds a stance keyword and
\* that the graph did not have
C27_Scenario ==
    /\ last_op.name = "update_cbn_with_qa"
    /\ \E i \in 1..Len(last_op.source.nodes) :
          /\ _is_stance_belief(last_op.source.nodes[i].label)
          /\ get_node_by_label(last_op.before, last_op.source.nodes[i].label) = None

\* a is preferred to b on rule r of the five ordered rules
PreferredOn(r, a, b) ==
    CASE r = 1 -> a.is_stance /\ ~b.is_stance
      [] r = 2 -> a.status = "anchor" /\ b.status # "anchor"
      [] r = 3 -> a.frequency > b.frequency
      [] r = 4 -> RGt(a.importance, b.importance)
      [] r = 5 -> RGt(a.aggregate_confidence, b.aggregate_confidence)

DifferOn(r, a, b) == PreferredOn(r, a, b) \/ PreferredOn(r, b, a)

\* a is preferred to b by the first rule on which the two differ
Preferred(a, b) ==
    \E r \in 1..5 : PreferredOn(r, a, b) /\ \A q \in 1..(r - 1) : ~DifferOn(q, a, b)

\* C28: _determine_merge_direction returns as target the node preferred by
\* the first of the rules is_stance, anchor status, frequency, importance,
\* aggregate_confidence on which the two differ, and (n1, n2) as (source,
\* target) on a tie; when they differ the target is the same in either
\* argument order.
C28_MergeDirectionRules ==
    last_op.name = "_determine_merge_direction" =>
        LET n1 == last_op.source[1]
            n2 == last_op.source[2]
            swapped == _determine_merge_direction("n2", "n1", n2, n1)
        IN  /\ Preferred(n1, n2) => last_op.target = <<"n2", "n1">>
            /\ Preferred(n2, n1) => last_op.target = <<"n1", "n2">>
            /\ ~(\E r \in 1..5 : DifferOn(r, n1, n2)) => last_op.target = <<"n1", "n2">>
            /\ (\E r \in 1..5 : DifferOn(r, n1, n2)) => swapped[2] = last_op.target[2]

\* the direction has been decided for a candidate first node and a stance
\* second node of lower frequency
C28_Witness ==
    /\ last_op.name = "_determine_merge_direction"
    /\ ~last_op.source[1].is_stance /\ last_op.source[2].is_stance
    /\ last_op.source[1].frequency > last_op.source[2].frequency
    /\ last_op.target = <<"n1", "n2">>

\* C29: when merge_graph_components merges two nodes of which neither is the
\* stance node and which have the same anchor status, the target's frequency
\* at that moment is at least the source's.
C29_TargetAtLeastAsFrequent ==
    last_op.name = "_merge_nodes" =>
        LET source == last_op.before.nodes[last_op.source]
            target == last_op.before.nodes[last_op.target]
        IN  (/\ ~source.is_stance /\ ~target.is_stance
             /\ (source.status = "anchor") = (target.status = "anchor"))
                => target.frequency >= source.frequency

\* a merge whose source has, earlier in the same pass, absorbed a node of an
\* earlier QA pair: neither node is the stance node, both are candidates
C29_Scenario ==
    /\ last_op.name = "_merge_nodes"
    /\ LET source == last_op.before.nodes[last_op.source]
           target == last_op.before.nodes[last_op.target]
       IN  /\ ~source.is_stance /\ ~target.is_stance
           /\ source.status = "candidate" /\ target.status = "candidate"
           /\ Len(source.evidence) = 2 /\ Len(target.evidence) = 1
           /\ source.frequency = 2 /\ target.frequency = 1

\* the promotion scan of the last step: the graph before it
Scanned == last_op.before

\* the candidates the scan examines before it reaches node_ids[i]
PromotedBefore(i) ==
    {j \in 1..(i - 1) : /\ Scanned.nodes[Scanned.node_ids[j]].status = "candidate"
                        /\ Current.nodes[Scanned.node_ids[j]].status = "anchor"}

\* (frequency >= 2, or importance > 0.85 and aggregate_confidence > 0.85, or
\* an incoming or outgoing edge) and len(anchor_queue) < max_anchors, when the
\* scan examines node_ids[i]
MeetsPromotionRule(i) ==
    LET node == Scanned.nodes[Scanned.node_ids[i]]
    IN  /\ \/ node.frequency >= 2
           \/ RGt(node.importance, R(85, 100)) /\ RGt(node.aggregate_confidence, R(85, 100))
           \/ node.incoming_edges # <<>> \/ node.outgoing_edges # <<>>
        /\ Len(Scanned.anchor_queue) + Cardinality(PromotedBefore(i)) < max_anchors

ConvergenceReported ==
    _check_structure_convergence(last_op.before, last_op.source.stable_rounds)[1]

\* C31: structural convergence is reported at an evaluation round exactly
\* when that round and the two before it found zero candidate nodes; a round
\* that finds a candidate resets the counter of rounds to 0.
C31_ConvergenceAfterThreeRounds ==
    (/\ last_op.name = "check_termination"
     /\ Cardinality(DOMAIN last_op.before.qa_history) < max_qa_count)
        => /\ ConvergenceReported <=> rq[last_op.session].zero_rounds >= 3
           /\ rq[last_op.session].zero_rounds = 0 => mgr.stable_rounds = 0

\* the statement of C31 with four rounds in place of three
C31_ConvergenceAfterFourRounds ==
    (/\ last_op.name = "check_termination"
     /\ Cardinality(DOMAIN last_op.before.qa_history) < max_qa_count)
        => /\ ConvergenceReported <=> rq[last_op.session].zero_rounds >= 4
           /\ rq[last_op.session].zero_rounds = 0 => mgr.stable_rounds = 0

\* the third evaluation round in a row that found no candidate node
C31_Scenario ==
    /\ last_op.name = "check_termination"
    /\ Cardinality(DOMAIN last_op.before.qa_history) < max_qa_count
    /\ rq[last_op.session].zero_rounds = 3

\* the Jaccard similarity |A n B| / |A u B| of the normalised token sets of two
\* labels is defined and at least 0.7
JaccardAtLeastThreshold(label1, label2) ==
    LET A == Range(preprocess_label(label1))
        B == Range(preprocess_label(label2))
    IN  /\ A \cup B # {}
        /\ 10 * Cardinality(A \cap B) >= 7 * Cardinality(A \cup B)

\* the unordered pairs that find_similar_nodes returned for the graph it was given
ReturnedPairs(cbn) ==
    {{find_similar_nodes(cbn)[k][1], find_similar_nodes(cbn)[k][2]} :
        k \in 1..Len(find_similar_nodes(cbn))}

\* C32: find_similar_nodes returns an unordered pair of distinct nodes exactly
\* when both labels are non-empty and the Jaccard similarity of their normalised
\* token sets is at least 0.7, and it returns each such pair once.
C32_SimilarPairsByJaccard ==
    last_op.name = "_find_mergeable_nodes" =>
        LET cbn == last_op.before
            similar_pairs == find_similar_nodes(cbn)
        IN  /\ \A a \in DOMAIN cbn.nodes : \A b \in (DOMAIN cbn.nodes) \ {a} :
                  {a, b} \in ReturnedPairs(cbn)
                      <=> /\ cbn.nodes[a].label # <<>>
                          /\ cbn.nodes[b].label # <<>>
                          /\ JaccardAtLeastThreshold(cbn.nodes[a].label, cbn.nodes[b].label)
            /\ \A k \in 1..Len(similar_pairs) : similar_pairs[k][1] # similar_pairs[k][2]
            /\ Cardinality(ReturnedPairs(cbn)) = Len(similar_pairs)

\* find_similar_nodes was given a graph with a pair of labels that differ in a
\* word and are similar (3 of 4 words shared), and pairs that are not similar
C32_Witness ==
    /\ last_op.name = "_find_mergeable_nodes"
    /\ \E k \in 1..Len(find_similar_nodes(last_op.before)) :
          LET pair == find_similar_nodes(last_op.before)[k]
          IN  node_similarity(last_op.before.nodes[pair[1]].label,
                              last_op.before.nodes[pair[2]].label) = R(3, 4)
    /\ Cardinality(ReturnedPairs(last_op.before)) = 1
    /\ Cardinality(DOMAIN last_op.before.nodes) >= 4

\* find_similar_nodes was given a graph with an unlabelled node
C32_EmptyLabelCase ==
    /\ last_op.name = "_find_mergeable_nodes"
    /\ \E k \in DOMAIN last_op.before.nodes : last_op.before.nodes[k].label = <<>>
    /\ Cardinality(DOMAIN last_op.before.nodes) >= 2
\* the graph between _merge_nodes and _merge_duplicate_edges_after_node_merge in
\* the loop iteration that has just run
AfterNodeMerge == _merge_nodes(last_op.before, last_op.source, last_op.target)

\* the edges that the dedup scan of the merged node finds for a (source, target)
DuplicateGroup(cbn, node_id, node_pair) ==
    {e \in (Range(cbn.nodes[node_id].incoming_edges \o cbn.nodes[node_id].outgoing_edges)
                \cap DOMAIN cbn.edges) :
        <<cbn.edges[e].source, cbn.edges[e].target>> = node_pair}

\* the (source, target) pairs for which the scan finds several edges
DuplicatedPairs(cbn, node_id) ==
    {node_pair \in (DOMAIN cbn.nodes) \X (DOMAIN cbn.nodes) :
        Cardinality(DuplicateGroup(cbn, node_id, node_pair)) >= 2}

\* edge e ranks at least as high as edge f: higher aggregate_confidence, or the
\* same and at least as many evidence entries
RanksAtLeast(cbn, e, f) ==
    \/ RGt(cbn.edges[e].aggregate_confidence, cbn.edges[f].aggregate_confidence)
    \/ /\ cbn.edges[e].aggregate_confidence = cbn.edges[f].aggregate_confidence
       /\ Len(cbn.edges[e].evidence) >= Len(cbn.edges[f].evidence)

\* C33: when edge dedup after a node merge finds several edges with the same
\* (source, target), exactly one of them survives, it is one with the highest
\* aggregate_confidence, ties broken by the larger number of evidence entries, and
\* every other one is gone from the edge table and from both endpoints' edge lists.
C33_BestDuplicateSurvives ==
    last_op.name = "_merge_nodes" =>
        \A node_pair \in DuplicatedPairs(AfterNodeMerge, last_op.target) :
            LET group == DuplicateGroup(AfterNodeMerge, last_op.target, node_pair)
                survivors == group \cap DOMAIN Current.edges
            IN  /\ Cardinality(survivors) = 1
                /\ \A e \in survivors : \A f \in group : RanksAtLeast(AfterNodeMerge, e, f)
                /\ \A f \in group \ survivors : \A k \in {node_pair[1], node_pair[2]} :
                      k \in DOMAIN Current.nodes =>
                          /\ ~Contains(Current.nodes[k].incoming_edges, f)
                          /\ ~Contains(Current.nodes[k].outgoing_edges, f)

\* a node merge left two edges of different aggregate_confidence on one
\* (source, target), and the dedup has run
C33_Witness ==
    /\ last_op.name = "_merge_nodes"
    /\ \E node_pair \in DuplicatedPairs(AfterNodeMerge, last_op.target) :
          \E e, f \in DuplicateGroup(AfterNodeMerge, last_op.target, node_pair) :
              /\ RGt(AfterNodeMerge.edges[e].aggregate_confidence,
                     AfterNodeMerge.edges[f].aggregate_confidence)
              /\ node_pair[1] # node_pair[2]

\* as C33_Witness, with a tie on aggregate_confidence and unequal evidence counts
C33_TieCase ==
    /\ last_op.name = "_merge_nodes"
    /\ \E node_pair \in DuplicatedPairs(AfterNodeMerge, last_op.target) :
          \E e, f \in DuplicateGroup(AfterNodeMerge, last_op.target, node_pair) :
              /\ e # f
              /\ AfterNodeMerge.edges[e].aggregate_confidence
                    = AfterNodeMerge.edges[f].aggregate_confidence
              /\ Len(AfterNodeMerge.edges[e].evidence) # Len(AfterNodeMerge.edges[f].evidence)

\* the edges that the call just made created, or whose evidence list it changed
EdgesWithNewEvidence ==
    {e \in DOMAIN Current.edges :
        \/ e \notin DOMAIN last_op.before.edges
        \/ last_op.before.edges[e].evidence # Current.edges[e].evidence}

\* aggregate_confidence is the arithmetic mean of the evidence confidences
IsMeanConfidence(edge) ==
    RMul(edge.aggregate_confidence, RInt(Len(edge.evidence)))
        = RSum([i \in 1..Len(edge.evidence) |-> edge.evidence[i].confidence])

\* modifier is the confidence-weighted mean of the evidence original_modifier values
IsWeightedMeanModifier(edge) ==
    RMul(edge.modifier, RSum([i \in 1..Len(edge.evidence) |-> edge.evidence[i].confidence]))
        = RSum([i \in 1..Len(edge.evidence) |->
                   RMul(edge.evidence[i].original_modifier, edge.evidence[i].confidence)])

\* C34: after every call that creates an edge or changes its evidence list (the
\* edge step with add_edge and update_function_params, add_qa_to_graph, the edge
\* merges of a node merge) the edge's aggregate_confidence is the arithmetic mean
\* of its evidence confidences and its modifier is their confidence-weighted mean
\* of original_modifier.
C34_AggregatesMatchEvidence ==
    last_op.name \in {"add_edge", "add_qa_to_graph", "_merge_nodes"} =>
        \A e \in EdgesWithNewEvidence :
            /\ IsMeanConfidence(Current.edges[e])
            /\ IsWeightedMeanModifier(Current.edges[e])

\* C34 for the aggregate_confidence alone
C34_ConfidenceMatchesEvidence ==
    last_op.name \in {"add_edge", "add_qa_to_graph", "_merge_nodes"} =>
        \A e \in EdgesWithNewEvidence : IsMeanConfidence(Current.edges[e])

\* C34 for every call but an add_edge that update_function_params does not follow
C34_AggregatesAfterRecalculation ==
    (/\ last_op.name \in {"add_edge", "add_qa_to_graph", "_merge_nodes"}
     /\ ~(last_op.name = "add_edge" /\ rq[last_op.session].edge.strength = NoStrength))
        => \A e \in EdgesWithNewEvidence :
              /\ IsMeanConfidence(Current.edges[e])
              /\ IsWeightedMeanModifier(Current.edges[e])

\* add_edge has created an edge from a candidate without a strength, and
\* update_function_params was not called
C34_Scenario ==
    /\ last_op.name = "add_edge"
    /\ rq[last_op.session].edge.strength = NoStrength
    /\ last_op.source \in DOMAIN Current.edges
    /\ Current.edges[last_op.source].modifier = R(-49, 100)
    /\ Current.edges[last_op.source].evidence[1].original_modifier = R(-7, 10)

\* an edge merge has joined two evidence lists
C34_MergeCase ==
    /\ last_op.name = "_merge_nodes"
    /\ \E e \in EdgesWithNewEvidence : Len(Current.edges[e].evidence) >= 2
\* update_cbn_with_qa has returned for session s and no later update has begun
UpdateCompleted(s) ==
    /\ s \in DOMAIN cbn_store
    /\ rq[s].pc \in {"next_step", "questions", "idle"}
    /\ cbn_store[s].qa_history # <<>>

\* the node ids recorded in the extracted_nodes of the qa_history of a graph
RecordedNodeIds(cbn) ==
    UNION {{cbn.qa_history[q].extracted_nodes[i].node_id :
              i \in 1..Len(cbn.qa_history[q].extracted_nodes)} : q \in DOMAIN cbn.qa_history}

\* the node ids recorded as source or target in its extracted_pairs
RecordedPairEnds(cbn) ==
    UNION {UNION {{cbn.qa_history[q].extracted_pairs[i].source,
                   cbn.qa_history[q].extracted_pairs[i].target} :
                     i \in 1..Len(cbn.qa_history[q].extracted_pairs)} :
              q \in DOMAIN cbn.qa_history}

\* C35: after every completed QA-pair update, every node id recorded in a
\* qa_history record (node_id of extracted_nodes, source and target of
\* extracted_pairs) is the id of a node of the graph.
C35_RecordedIdsAreNodes ==
    \A s \in DOMAIN rq :
        UpdateCompleted(s) =>
            /\ RecordedNodeIds(cbn_store[s]) \subseteq DOMAIN cbn_store[s].nodes
            /\ RecordedPairEnds(cbn_store[s]) \subseteq DOMAIN cbn_store[s].nodes

\* C35 for the ids of extracted_pairs alone
C35_RecordedPairEndsAreNodes ==
    \A s \in DOMAIN rq :
        UpdateCompleted(s) =>
            RecordedPairEnds(cbn_store[s]) \subseteq DOMAIN cbn_store[s].nodes

\* an update has completed whose QA record lists an extracted node under the
\* oracle's key for it, while the graph holds a node with that label under
\* another id
C35_Scenario ==
    /\ UpdateCompleted(last_op.session)
    /\ \E q \in DOMAIN Current.qa_history :
          \E i \in 1..Len(Current.qa_history[q].extracted_nodes) :
              LET node_entry == Current.qa_history[q].extracted_nodes[i]
              IN  /\ node_entry.node_id \notin DOMAIN Current.nodes
                  /\ node_entry.label # <<>>
                  /\ FindExistingNode(Current, node_entry.label) # None

\* C36: after every completed QA-pair update, at most one edge exists for any
\* ordered (source, target) pair of nodes.
C36_OneEdgePerNodePair ==
    \A s \in DOMAIN rq :
        UpdateCompleted(s) =>
            \A e, f \in DOMAIN cbn_store[s].edges :
                (/\ cbn_store[s].edges[e].source = cbn_store[s].edges[f].source
                 /\ cbn_store[s].edges[e].target = cbn_store[s].edges[f].target) => e = f

\* the second of two updates whose answers each reported an edge between the same
\* two labels has completed, and the graph holds two edges between the two nodes
C36_Scenario ==
    /\ UpdateCompleted(last_op.session)
    /\ Cardinality(DOMAIN Current.qa_history) = 2
    /\ \E e, f \in DOMAIN Current.edges :
          /\ e # f
          /\ f \in EdgesBetween(Current, Current.edges[e].source, Current.edges[e].target)
          /\ Current.edges[e].source \in DOMAIN Current.nodes
          /\ Current.edges[e].target \in DOMAIN Current.nodes
          /\ Current.edges[e].source_label = Current.edges[f].source_label
          /\ Current.edges[e].target_label = Current.edges[f].target_label
          /\ Current.edges[e].evidence # Current.edges[f].evidence
          /\ Current.node_counter = Cardinality(DOMAIN Current.nodes)

\* C36 restricted to updates in which a node merge ran on an endpoint: the merged
\* node carries at most one edge per (source, target) when the merge step ends
C36_OneEdgePerPairAtMergedNode ==
    last_op.name = "_merge_nodes" =>
        \A e, f \in Range(Current.nodes[last_op.target].incoming_edges
                            \o Current.nodes[last_op.target].outgoing_edges)
                        \cap DOMAIN Current.edges :
            (/\ Current.edges[e].source = Current.edges[f].source
             /\ Current.edges[e].target = Current.edges[f].target) => e = f
\* the qa_ids of the evidence of the edges of a graph
EdgeEvidenceQaIds(cbn) ==
    UNION {{cbn.edges[e].evidence[i].qa_id : i \in 1..Len(cbn.edges[e].evidence)} :
              e \in DOMAIN cbn.edges}

\* the edges that the loop iteration just run removed from the graph
RemovedEdges == (DOMAIN last_op.before.edges) \ (DOMAIN Current.edges)

\* C37: a merge pass never discards edge evidence: for every edge that an
\* iteration of merge_graph_components removes, each qa_id of its evidence is
\* afterwards in the evidence of an edge of the graph.
C37_EdgeEvidenceKept ==
    last_op.name = "_merge_nodes" =>
        \A e \in RemovedEdges :
            \A i \in 1..Len(last_op.before.edges[e].evidence) :
                last_op.before.edges[e].evidence[i].qa_id \in EdgeEvidenceQaIds(Current)

\* C37 for the removed edges that did not join the two merged nodes
C37_EvidenceKeptUnlessConnected ==
    last_op.name = "_merge_nodes" =>
        \A e \in RemovedEdges :
            {last_op.before.edges[e].source, last_op.before.edges[e].target}
                    # {last_op.source, last_op.target}
                => \A i \in 1..Len(last_op.before.edges[e].evidence) :
                      last_op.before.edges[e].evidence[i].qa_id \in EdgeEvidenceQaIds(Current)

\* two nodes joined by an edge were merged, the edge is gone and the graph has
\* no edge that carries the qa_id of its evidence
C37_Scenario ==
    /\ last_op.name = "_merge_nodes"
    /\ \E e \in RemovedEdges :
          /\ last_op.before.edges[e].source = last_op.source
          /\ last_op.before.edges[e].target = last_op.target
          /\ last_op.before.edges[e].evidence[1].qa_id \notin EdgeEvidenceQaIds(Current)

\* an iteration removed a duplicate edge between two other nodes
C37_DuplicateCase ==
    /\ last_op.name = "_merge_nodes"
    /\ \E e \in RemovedEdges :
          {last_op.before.edges[e].source, last_op.before.edges[e].target}
              # {last_op.source, last_op.target}
\* the references of a model are consistent: every edge's source and target are
\* nodes, and every edge id in a node's incoming_edges or outgoing_edges is an edge
ConsistentReferences(data) ==
    /\ \A e \in DOMAIN data.edges :
          data.edges[e].source \in DOMAIN data.nodes /\ data.edges[e].target \in DOMAIN data.nodes
    /\ \A k \in DOMAIN data.nodes :
          Range(data.nodes[k].incoming_edges \o data.nodes[k].outgoing_edges)
              \subseteq DOMAIN data.edges

\* a CBN has just been built from a loaded model with consistent references and
\* more than one stance node
SurplusStanceRemoved ==
    /\ last_op.name = "CausalBayesianNetwork"
    /\ last_op.source # <<>>
    /\ Len(stance_nodes(last_op.source[1])) > 1
    /\ ConsistentReferences(last_op.source[1])

\* C38: after _ensure_stance_node has removed surplus stance nodes from a loaded
\* model whose references were consistent, every remaining edge's source and
\* target exist and every edge id listed in a remaining node's incoming_edges or
\* outgoing_edges is in the edge table.
C38_ConsistentAfterStanceCleanup ==
    SurplusStanceRemoved => ConsistentReferences(Current)

\* C38 for the edges alone: the source and target of every remaining edge exist
C38_EdgeEndsExist ==
    SurplusStanceRemoved =>
        \A e \in DOMAIN Current.edges :
            Current.edges[e].source \in DOMAIN Current.nodes
                /\ Current.edges[e].target \in DOMAIN Current.nodes

\* the removed stance node had an edge to a factor: the edge is gone and the
\* factor still lists it
C38_Scenario ==
    /\ SurplusStanceRemoved
    /\ Len(stance_nodes(Current)) = 1
    /\ \E k \in DOMAIN Current.nodes :
          \E i \in 1..Len(Current.nodes[k].incoming_edges) :
              LET e == Current.nodes[k].incoming_edges[i]
              IN  /\ e \notin DOMAIN Current.edges
                  /\ last_op.source[1].edges[e].target = k
                  /\ last_op.source[1].edges[e].source \notin DOMAIN Current.nodes

\* the removed stance node had an incoming edge, now an edge of the kept one
C38_RedirectCase ==
    /\ SurplusStanceRemoved
    /\ \E e \in DOMAIN Current.edges :
          Current.edges[e].target # last_op.source[1].edges[e].target
====
